---- MODULE Spec2Model ----
(***************************************************************************)
(* Klipd clipboard manager: the clipboard monitor (services/clipboard.go), *)
(* its storage (database/database.go) and the content filter               *)
(* (config/config.go), as a state machine.                                 *)
(*                                                                         *)
(* Strings are sequences of one-character strings.  Time is an integer     *)
(* clock; one unit is one day.  A sha256 digest is modelled as an          *)
(* injective tag of the content.                                           *)
(***************************************************************************)
EXTENDS Integers, Sequences, FiniteSets, TLC

\* ---------------------------------------------------------------- bounds
MaxIds == 3        \* entries ever created (uuid.New() never repeats)
MaxTime == 2       \* the clock runs 0..MaxTime
MaxStarts == 2     \* successful Start() calls (each spawns two goroutines)

Ids == 1..MaxIds
Gens == 1..MaxStarts
Times == 0..MaxTime

\* the values the user can save for settings.MaxItems / settings.MaxDays
MaxItemsChoices == {1, 2}
MaxDaysChoices == {1, 2}

\* polling intervals in milliseconds
DefaultInterval == 500
IntervalChoices == {DefaultInterval, 2 * DefaultInterval}

\* ------------------------------------------------------ clipboard inputs
cText == <<"h", "i">>
cPass == <<"P", "a", "s", "s", "w", "0", "r", "d">>
cBlank == <<" ", "\t">>
cPath == <<"/", "a", ".", "p", "n", "g">>

Contents == {cText, cPath, cPass, cBlank}

\* ------------------------------------------------------- pure functions
Whitespace == {" ", "\t", "\n", "\r"}
UpperChars == {"A","B","C","D","E","F","G","H","I","J","K","L","M",
               "N","O","P","Q","R","S","T","U","V","W","X","Y","Z"}
LowerChars == {"a","b","c","d","e","f","g","h","i","j","k","l","m",
               "n","o","p","q","r","s","t","u","v","w","x","y","z"}
DigitChars == {"0","1","2","3","4","5","6","7","8","9"}
SpecialChars == {"!","@","#","$","%","^","&","*","(",")","_","+","-","=",
                 "[","]","{","}","|",";",":",",",".","<",">","?"}

MaxContentBytes == 1048576
MinPasswordLen == 8
MaxPasswordLen == 128

\* len(s): the elements of a string are its bytes, except Block, which
\* stands for a run of MaxContentBytes bytes "x"
Block == "x..x"
Bytes(b) == IF b = Block THEN MaxContentBytes ELSE 1

RECURSIVE ByteLen(_)
ByteLen(s) ==
    IF Len(s) = 0 THEN 0
    ELSE IF Len(s) = 1 THEN Bytes(s[1])
    ELSE LET half == Len(s) \div 2
         IN  ByteLen(SubSeq(s, 1, half)) + ByteLen(SubSeq(s, half + 1, Len(s)))

ContainsAny(s, chars) == \E i \in 1..Len(s) : s[i] \in chars

RECURSIVE TrimLeft(_)
TrimLeft(s) ==
    IF s # <<>> /\ Head(s) \in Whitespace THEN TrimLeft(Tail(s)) ELSE s

RECURSIVE TrimRight(_)
TrimRight(s) ==
    IF s # <<>> /\ s[Len(s)] \in Whitespace
    THEN TrimRight(SubSeq(s, 1, Len(s) - 1))
    ELSE s

TrimSpace(s) == TrimRight(TrimLeft(s))

HasPrefix(s, p) == Len(s) >= Len(p) /\ SubSeq(s, 1, Len(p)) = p
HasSuffix(s, p) == Len(s) >= Len(p) /\ SubSeq(s, Len(s) - Len(p) + 1, Len(s)) = p
Contains(s, p) ==
    \E i \in 1..(Len(s) - Len(p) + 1) : SubSeq(s, i, i + Len(p) - 1) = p

UpperSeq == <<"A","B","C","D","E","F","G","H","I","J","K","L","M",
              "N","O","P","Q","R","S","T","U","V","W","X","Y","Z">>
LowerSeq == <<"a","b","c","d","e","f","g","h","i","j","k","l","m",
              "n","o","p","q","r","s","t","u","v","w","x","y","z">>

LowerOf(ch) ==
    IF ch \in UpperChars
    THEN LowerSeq[CHOOSE i \in 1..26 : UpperSeq[i] = ch]
    ELSE ch

UpperOf(ch) ==
    IF ch \in LowerChars
    THEN UpperSeq[CHOOSE i \in 1..26 : LowerSeq[i] = ch]
    ELSE ch

ToLower(s) == [i \in 1..Len(s) |-> LowerOf(s[i])]
ToUpper(s) == [i \in 1..Len(s) |-> UpperOf(s[i])]

\* isLikelyPassword with charTypes >= 2
isLikelyPasswordTwoClasses(raw) ==
    LET content == TrimSpace(raw)
        hasUpper == ToLower(content) # content
        hasLower == ToUpper(content) # content
        hasDigit == ContainsAny(content, DigitChars)
        hasSpecial == ContainsAny(content, SpecialChars)
        charTypes == (IF hasUpper THEN 1 ELSE 0) + (IF hasLower THEN 1 ELSE 0)
                     + (IF hasDigit THEN 1 ELSE 0) + (IF hasSpecial THEN 1 ELSE 0)
    IN  IF ByteLen(content) < MinPasswordLen THEN FALSE
        ELSE IF ByteLen(content) > MaxPasswordLen THEN FALSE
        ELSE IF ContainsAny(content, {" ", "\n", "\t"}) THEN FALSE
        ELSE charTypes >= 2

isLikelyPassword(raw) ==
    LET content == TrimSpace(raw)
        hasUpper == ToLower(content) # content
        hasLower == ToUpper(content) # content
        hasDigit == ContainsAny(content, DigitChars)
        hasSpecial == ContainsAny(content, SpecialChars)
        charTypes == (IF hasUpper THEN 1 ELSE 0) + (IF hasLower THEN 1 ELSE 0)
                     + (IF hasDigit THEN 1 ELSE 0) + (IF hasSpecial THEN 1 ELSE 0)
    IN  IF ByteLen(content) < MinPasswordLen THEN FALSE
        ELSE IF ByteLen(content) > MaxPasswordLen THEN FALSE
        ELSE IF ContainsAny(content, {" ", "\n", "\t"}) THEN FALSE
        ELSE charTypes >= 3

\* ShouldSkipContent with >= in place of > at the size test
ShouldSkipContentAtLimit(cfg, content) ==
    IF TrimSpace(content) = <<>> THEN TRUE
    ELSE IF ByteLen(content) >= MaxContentBytes THEN TRUE
    ELSE IF ~cfg.AllowPasswords /\ isLikelyPassword(content) THEN TRUE
    ELSE FALSE

ShouldSkipContent(cfg, content) ==
    IF TrimSpace(content) = <<>> THEN TRUE
    ELSE IF ByteLen(content) > MaxContentBytes THEN TRUE
    ELSE IF ~cfg.AllowPasswords /\ isLikelyPassword(content) THEN TRUE
    ELSE FALSE

ImageExtensions ==
    { <<".","j","p","g">>, <<".","j","p","e","g">>, <<".","p","n","g">>,
      <<".","g","i","f">>, <<".","b","m","p">>, <<".","w","e","b","p">>,
      <<".","t","i","f","f">>, <<".","s","v","g">> }

IsImageFormat(filename) ==
    \E ext \in ImageExtensions : HasSuffix(ToLower(filename), ext)

Ellipsis == <<".", ".", ".">>

\* strings.LastIndex(s, b) for a one-byte b: the 0-based index or -1
LastIndex(s, b) ==
    IF \E i \in 1..Len(s) : s[i] = b
    THEN (CHOOSE i \in 1..Len(s) :
             s[i] = b /\ \A j \in (i + 1)..Len(s) : s[j] # b) - 1
    ELSE -1

\* TruncatePreview with >= in place of > at the midpoint test
TruncatePreviewAtMidpoint(text, maxLength) ==
    IF Len(text) <= maxLength THEN text
    ELSE LET truncated == SubSeq(text, 1, maxLength)
             lastSpace == LastIndex(truncated, " ")
             lastNewline == LastIndex(truncated, "\n")
             breakPoint == IF lastNewline > lastSpace THEN lastNewline
                           ELSE lastSpace
         IN  IF breakPoint >= maxLength \div 2
             THEN SubSeq(text, 1, breakPoint) \o Ellipsis
             ELSE SubSeq(text, 1, maxLength) \o Ellipsis

TruncatePreview(text, maxLength) ==
    IF Len(text) <= maxLength THEN text
    ELSE LET truncated == SubSeq(text, 1, maxLength)
             lastSpace == LastIndex(truncated, " ")
             lastNewline == LastIndex(truncated, "\n")
             breakPoint == IF lastNewline > lastSpace THEN lastNewline
                           ELSE lastSpace
         IN  IF breakPoint > maxLength \div 2
             THEN SubSeq(text, 1, breakPoint) \o Ellipsis
             ELSE SubSeq(text, 1, maxLength) \o Ellipsis

looksLikeFilePath(content) ==
    \/ HasPrefix(content, <<"/">>)
    \/ HasPrefix(content, <<"~", "/">>)
    \/ Contains(content, <<":", "\\">>)
    \/ HasPrefix(content, <<"f","i","l","e",":","/","/">>)

looksLikeURL(content) ==
    \/ HasPrefix(content, <<"h","t","t","p",":","/","/">>)
    \/ HasPrefix(content, <<"h","t","t","p","s",":","/","/">>)
    \/ HasPrefix(content, <<"f","t","p",":","/","/">>)

\* detectContentType with the URL rule before the path rule
detectContentTypeUrlFirst(raw) ==
    LET content == TrimSpace(raw)
    IN  IF looksLikeURL(content)
        THEN (IF IsImageFormat(content) THEN "image" ELSE "text")
        ELSE IF looksLikeFilePath(content)
        THEN (IF IsImageFormat(content) THEN "image" ELSE "file")
        ELSE "text"

detectContentType(raw) ==
    LET content == TrimSpace(raw)
    IN  IF looksLikeFilePath(content)
        THEN (IF IsImageFormat(content) THEN "image" ELSE "file")
        ELSE IF looksLikeURL(content) /\ IsImageFormat(content) THEN "image"
        ELSE "text"

\* ------------------------------------------------ inputs of pure functions
inTwoClasses == <<"l", "o", "w", "e", "r", "c", "a", "s", "e", "1">>
PasswordInputs ==
    LET inToken == <<"v", "e", "r", "y", "l", "o", "n", "g", "p", "a", "s", "s", "w", "o", "r", "d", "w", "i", "t", "h", "o", "u", "t", "s", "p", "a", "c", "e", "s", "1", "2", "3", "4", "5", "6">>
        inUrlMixed == <<"h", "t", "t", "p", "s", ":", "/", "/", "E", "x", "a", "m", "p", "l", "e", ".", "c", "o", "m", "/", "A", "1">>
        inRun == <<"a", "a", "a", "b", "b", "b", "1", "!">>
        inCarriage == <<"P", "a", "s", "s", "\r", "w", "0", "r", "d", "1", "!">>
        inShort == <<"A", "b", "1", "!", "x", "y", "z">>
        inPaddedShort == <<" ", " ", "A", "b", "1", "!", "x", "y", "z", "\n">>
        inEmail == <<"B", "o", "b", "1", "@", "m", "a", "i", "l", ".", "i", "o">>
        inCall == <<"o", "b", "j", ".", "G", "e", "t", "1", "(", ")">>
        inMaxPassword == [i \in 1..MaxPasswordLen |-> IF i = 1 THEN "A" ELSE IF i = 2 THEN "1" ELSE "a"]
        inOverMax == [i \in 1..(MaxPasswordLen + 1) |-> IF i = 1 THEN "A" ELSE IF i = 2 THEN "1" ELSE "a"]
    IN  {inToken, inUrlMixed, inRun, inCarriage, inShort, inPaddedShort,
         inTwoClasses, inEmail, inCall, inMaxPassword, inOverMax}
FnInputs ==
    LET inEmpty == <<>>
        inPassSpace == <<"P", "a", "s", "s", " ", "w", "0", "r", "d", "1">>
        inTilde == <<"~", "/", "a">>
        inDrive == <<"c", ":", "\\", "a", ".", "G", "I", "F">>
        inFileUrl == <<"f", "i", "l", "e", ":", "/", "/", "a">>
        inHttpImage == <<"h", "t", "t", "p", ":", "/", "/", "a", ".", "j", "p", "g">>
        inHttps == <<"h", "t", "t", "p", "s", ":", "/", "/", "a">>
        inFtpImage == <<"f", "t", "p", ":", "/", "/", "a", ".", "s", "v", "g">>
        inPaddedPath == <<" ", "/", "a", ".", "p", "n", "g", "\n">>
        inUrlDrive == <<"h", "t", "t", "p", ":", "/", "/", "c", ":", "\\", "a">>
        inBareImage == <<"a", ".", "p", "n", "g">>
        inWords == <<"a", "b", " ", "c", "d", " ", "e", "f">>
        inLines == <<"a", "\n", "b", " ", "c", "d", "e", "f">>
        inNoBreak == <<"a", "b", "c", "d", "e", "f">>
        inMiB == <<Block>>
        inMiBPlusOne == <<Block, "x">>
        inPaddedMiB == <<" ", Block>>
    IN  Contents \cup PasswordInputs \cup
        {inEmpty, inPassSpace, inTilde, inDrive,
         inFileUrl, inHttpImage, inHttps, inFtpImage,
         inPaddedPath, inUrlDrive, inBareImage, inWords,
         inLines, inNoBreak, inMiB, inMiBPlusOne,
         inPaddedMiB}

MaxPreview == 7

\* sha256 is used for equality only; collisions are ignored
generateHash(content) == <<"sha256", content>>

NoHash == <<>>                \* the zero value "" of ClipboardMonitor.lastHash

\* ------------------------------------------------------------------ state
VARIABLES
    items,      \* table clipboard_items: id -> row
    settings,   \* the row of table settings
    nextId,     \* the next id uuid.New() hands out
    now,        \* time.Now(), in days
    clip,       \* the content of the OS clipboard
    config,     \* the Config shared by App and ClipboardMonitor
    lastHash,   \* ClipboardMonitor.lastHash
    isRunning,  \* ClipboardMonitor.isRunning
    ctxDone,    \* ClipboardMonitor.ctx has been cancelled
    started,    \* how many times Start() has spawned its two goroutines
    event,      \* what the latest operation returned or logged
    poller,     \* goroutine monitorClipboard of each Start: position and locals
    cleaner,    \* goroutine runCleanup of each Start: position and locals
    recall,     \* a CopyItemToClipboard call in progress
    ticker,     \* the interval of the ticker of each monitorClipboard goroutine
    out,        \* the latest call of a pure function: its arguments and result
    hotkeys     \* the App's HotkeyManager

vars == <<items, settings, nextId, now, clip, config, lastHash, isRunning,
          ctxDone, started, event, poller, cleaner, recall, ticker, out,
          hotkeys>>

NoItem == [ID |-> 0]

NewRow(id, content, t) ==
    [ID |-> id,
     ContentType |-> detectContentType(content),
     ContentText |-> content,
     Hash |-> generateHash(content),
     IsPinned |-> FALSE,
     CreatedAt |-> t,
     LastAccessed |-> t]

PollerIdle(pc) == [pc |-> pc, content |-> <<>>, item |-> NoItem]
CleanerIdle(pc) ==
    [pc |-> pc, maxItems |-> 0, cutoff |-> 0, itemsToDelete |-> 0,
     oldestItems |-> <<>>]
RecallIdle == [pc |-> "idle", item |-> NoItem]
NoCall == [fn |-> "none"]

\* hotkey strings, split at "+", and the callbacks registered for them
HotkeyStrs ==
    {<<"Cmd", "Shift", "V">>, <<"Cmd", "Shift", "C">>, <<"Cmd", "Shift", "1">>}
Callbacks == {"callback1", "callback2"}
NoCallback == "nil"

\* the two HotkeyManager implementations of the repository: the one without
\* OS registration and the one on golang.design/x/hotkey
HotkeyImpls == {"simplified", "global"}

\* before App.startup: a.hotkeyManager is nil
NoHotkeyManager ==
    [impl |-> "none", isRunning |-> FALSE,
     callbacks |-> [h \in HotkeyStrs |-> NoCallback], registered |-> {},
     key |-> << >>, called |-> {}]

\* config.NewConfig()
NewConfig ==
    [PollingInterval |-> DefaultInterval, MaxItems |-> 100, MaxDays |-> 7,
     MonitoringEnabled |-> TRUE, GlobalHotkey |-> "Cmd+Shift+V",
     PreviousHotkey |-> "Cmd+Shift+C", AutoLaunch |-> TRUE,
     EnableSounds |-> FALSE, AllowPasswords |-> FALSE]

\* the settings row initializeSettings creates, with the smallest retention
\* values of the model
DefaultSettings ==
    [MaxItems |-> 1, MaxDays |-> 1, PollingInterval |-> DefaultInterval,
     MonitoringEnabled |-> TRUE, AllowPasswords |-> FALSE]

Init ==
    /\ items = << >>
    /\ settings \in {[DefaultSettings EXCEPT !.MaxItems = mi, !.MaxDays = md] :
                       mi \in MaxItemsChoices, md \in MaxDaysChoices}
    /\ nextId = 1
    /\ now = 0
    /\ clip \in Contents
    /\ config = NewConfig
    /\ lastHash = NoHash
    /\ isRunning = FALSE
    /\ ctxDone = FALSE
    /\ started = 0
    /\ event = "none"
    /\ poller = [g \in Gens |-> PollerIdle("none")]
    /\ cleaner = [g \in Gens |-> CleanerIdle("none")]
    /\ recall = RecallIdle
    /\ ticker = [g \in Gens |-> 0]
    /\ out = NoCall
    /\ hotkeys = NoHotkeyManager

\* ------------------------------------------------------- storage helpers
NonPinned(tbl) == {id \in DOMAIN tbl : ~tbl[id].IsPinned}
Pinned(tbl) == {id \in DOMAIN tbl : tbl[id].IsPinned}
WithHash(tbl, h) == {id \in DOMAIN tbl : tbl[id].Hash = h}

\* DELETE ... WHERE id IN drop
DeleteRows(tbl, drop) == [id \in (DOMAIN tbl) \ drop |-> tbl[id]]

\* gorm Save of a row with its primary key set: UPDATE of every column, and
\* an INSERT .. ON CONFLICT UPDATE when the UPDATE matched no row
SaveRow(tbl, row) ==
    [id \in (DOMAIN tbl) \cup {row.ID} |-> IF id = row.ID THEN row ELSE tbl[id]]

\* --------------------------------------------------- monitor life cycle
\* Start without its isRunning check
StartUnguarded ==
    /\ started < MaxStarts
    /\ isRunning' = TRUE
    /\ \E readOk \in BOOLEAN :
          lastHash' = IF readOk THEN generateHash(clip) ELSE lastHash
    /\ started' = started + 1
    /\ poller' = [poller EXCEPT ![started + 1] = PollerIdle("select")]
    /\ cleaner' = [cleaner EXCEPT ![started + 1] = CleanerIdle("select")]
    /\ ticker' = [ticker EXCEPT ![started + 1] = config.PollingInterval]
    /\ event' = "Start: started"
    /\ UNCHANGED <<items, settings, nextId, now, clip, config, ctxDone,
                   recall, out, hotkeys>>

Start ==
    IF isRunning
    THEN /\ event' = "Start: already running"
         /\ UNCHANGED <<items, settings, nextId, now, clip, config, lastHash,
                        isRunning, ctxDone, started, poller, cleaner, recall, ticker, out, hotkeys>>
    ELSE /\ started < MaxStarts
         /\ isRunning' = TRUE
         /\ \E readOk \in BOOLEAN :
               lastHash' = IF readOk THEN generateHash(clip) ELSE lastHash
         /\ started' = started + 1
         /\ poller' = [poller EXCEPT ![started + 1] = PollerIdle("select")]
         /\ cleaner' = [cleaner EXCEPT ![started + 1] = CleanerIdle("select")]
         /\ ticker' = [ticker EXCEPT ![started + 1] = config.PollingInterval]
         /\ event' = "Start: started"
         /\ UNCHANGED <<items, settings, nextId, now, clip, config, ctxDone,
                        recall, out, hotkeys>>

\* Stop without its isRunning check
StopUnguarded ==
    /\ isRunning' = FALSE
    /\ ctxDone' = TRUE
    /\ event' = "Stop: stopped"
    /\ UNCHANGED <<items, settings, nextId, now, clip, config, lastHash,
                   started, poller, cleaner, recall, ticker, out, hotkeys>>

Stop ==
    IF ~isRunning
    THEN /\ event' = "Stop: not running"
         /\ UNCHANGED <<items, settings, nextId, now, clip, config, lastHash,
                        isRunning, ctxDone, started, poller, cleaner, recall, ticker, out, hotkeys>>
    ELSE /\ isRunning' = FALSE
         /\ ctxDone' = TRUE
         /\ event' = "Stop: stopped"
         /\ UNCHANGED <<items, settings, nextId, now, clip, config, lastHash,
                        started, poller, cleaner, recall, ticker, out, hotkeys>>

\* ------------------------------------------------------- polling goroutine
\* checkClipboard without the comparison with lastHash
TickOutcomeNoHashCheck(readOk) ==
    IF ~config.MonitoringEnabled THEN "poll: paused"
    ELSE IF ~readOk THEN "poll: read error"
    ELSE IF ShouldSkipContent(config, clip) THEN "poll: skipped"
    ELSE "poll: changed"

\* monitorClipboard calling checkClipboard whether monitoring is enabled or
\* not
TickOutcomeIgnoresPause(readOk) ==
    IF ~readOk THEN "poll: read error"
    ELSE IF generateHash(clip) = lastHash THEN "poll: unchanged"
    ELSE IF ShouldSkipContent(config, clip) THEN "poll: skipped"
    ELSE "poll: changed"

\* what checkClipboard does with the content it reads, up to the lookup
TickOutcome(readOk) ==
    IF ~config.MonitoringEnabled THEN "poll: paused"
    ELSE IF ~readOk THEN "poll: read error"
    ELSE IF generateHash(clip) = lastHash THEN "poll: unchanged"
    ELSE IF ShouldSkipContent(config, clip) THEN "poll: skipped"
    ELSE "poll: changed"

\* checkClipboard clearing cm.lastHash when it filters the content out
PollBeginForgetsFiltered(g) ==
    /\ poller[g].pc = "select"
    /\ \E readOk \in BOOLEAN :
         LET outcome == TickOutcome(readOk)
         IN  /\ lastHash' = IF outcome = "poll: changed" THEN generateHash(clip)
                            ELSE IF outcome = "poll: skipped" THEN NoHash
                            ELSE lastHash
             /\ poller' = [poller EXCEPT ![g] =
                   IF outcome = "poll: changed"
                   THEN [pc |-> "lookup", content |-> clip, item |-> NoItem]
                   ELSE PollerIdle("select")]
             /\ event' = outcome
    /\ UNCHANGED <<items, settings, nextId, now, clip, config, isRunning,
                   ctxDone, started, cleaner, recall, ticker, out, hotkeys>>

\* checkClipboard assigning cm.lastHash after the ShouldSkipContent test
PollBeginHashAfterFilter(g) ==
    /\ poller[g].pc = "select"
    /\ \E readOk \in BOOLEAN :
         LET outcome == TickOutcome(readOk)
         IN  /\ lastHash' = IF outcome = "poll: changed"
                            THEN generateHash(clip) ELSE lastHash
             /\ poller' = [poller EXCEPT ![g] =
                   IF outcome = "poll: changed"
                   THEN [pc |-> "lookup", content |-> clip, item |-> NoItem]
                   ELSE PollerIdle("select")]
             /\ event' = outcome
    /\ UNCHANGED <<items, settings, nextId, now, clip, config, isRunning,
                   ctxDone, started, cleaner, recall, ticker, out, hotkeys>>

\* monitorClipboard leaving its loop when the clipboard read fails
PollBeginReadErrorExits(g) ==
    /\ poller[g].pc = "select"
    /\ \E readOk \in BOOLEAN :
         LET outcome == TickOutcome(readOk)
         IN  /\ lastHash' = IF outcome \in {"poll: skipped", "poll: changed"}
                            THEN generateHash(clip) ELSE lastHash
             /\ poller' = [poller EXCEPT ![g] =
                   IF outcome = "poll: changed"
                   THEN [pc |-> "lookup", content |-> clip, item |-> NoItem]
                   ELSE IF outcome = "poll: read error"
                   THEN PollerIdle("exited")
                   ELSE PollerIdle("select")]
             /\ event' = outcome
    /\ UNCHANGED <<items, settings, nextId, now, clip, config, isRunning,
                   ctxDone, started, cleaner, recall, ticker, out, hotkeys>>

\* select in monitorClipboard takes <-ticker.C; checkClipboard up to the
\* duplicate lookup
PollBegin(g) ==
    /\ poller[g].pc = "select"
    /\ \E readOk \in BOOLEAN :
         LET outcome == TickOutcome(readOk)
         IN  /\ lastHash' = IF outcome \in {"poll: skipped", "poll: changed"}
                            THEN generateHash(clip) ELSE lastHash
             /\ poller' = [poller EXCEPT ![g] =
                   IF outcome = "poll: changed"
                   THEN [pc |-> "lookup", content |-> clip, item |-> NoItem]
                   ELSE PollerIdle("select")]
             /\ event' = outcome
    /\ UNCHANGED <<items, settings, nextId, now, clip, config, isRunning,
                   ctxDone, started, cleaner, recall, ticker, out, hotkeys>>

\* cm.db.GetItemByHash(currentHash); any error, not only "record not found",
\* takes the path that creates a new item
PollLookup(g) ==
    /\ poller[g].pc = "lookup"
    /\ LET matches == WithHash(items, generateHash(poller[g].content))
       IN  \/ /\ matches # {}
              /\ LET first == CHOOSE id \in matches : \A o \in matches : id <= o
                 IN  poller' = [poller EXCEPT ![g].pc = "update",
                         ![g].item = [items[first] EXCEPT !.LastAccessed = now]]
              /\ event' = "poll: duplicate found"
           \/ /\ matches = {}
              /\ poller' = [poller EXCEPT ![g].pc = "create"]
              /\ event' = "poll: not found"
           \/ /\ poller' = [poller EXCEPT ![g].pc = "create"]
              /\ event' = "poll: lookup error"
    /\ UNCHANGED <<items, settings, nextId, now, clip, config, lastHash,
                   isRunning, ctxDone, started, cleaner, recall, ticker, out, hotkeys>>

\* cm.db.UpdateClipboardItem(existingItem)
PollUpdate(g) ==
    /\ poller[g].pc = "update"
    /\ \/ /\ items' = SaveRow(items, poller[g].item)
          /\ event' = "poll: refreshed"
       \/ /\ UNCHANGED items
          /\ event' = "poll: update error"
    /\ poller' = [poller EXCEPT ![g] = PollerIdle("select")]
    /\ UNCHANGED <<settings, nextId, now, clip, config, lastHash, isRunning,
                   ctxDone, started, cleaner, recall, ticker, out, hotkeys>>

\* checkClipboard forgetting the hash of a content it could not store, so that
\* the next tick tries again
PollCreateForgetsOnError(g) ==
    /\ poller[g].pc = "create"
    /\ \/ /\ nextId <= MaxIds
          /\ items' = SaveRow(items, NewRow(nextId, poller[g].content, now))
          /\ nextId' = nextId + 1
          /\ event' = "poll: created"
          /\ lastHash' = lastHash
       \/ /\ UNCHANGED <<items, nextId>>
          /\ event' = "poll: create error"
          /\ lastHash' = NoHash
    /\ poller' = [poller EXCEPT ![g] = PollerIdle("select")]
    /\ UNCHANGED <<settings, now, clip, config, isRunning,
                   ctxDone, started, cleaner, recall, ticker, out, hotkeys>>

\* models.ClipboardItem{...}; cm.db.CreateClipboardItem(item)
PollCreate(g) ==
    /\ poller[g].pc = "create"
    /\ \/ /\ nextId <= MaxIds
          /\ items' = SaveRow(items, NewRow(nextId, poller[g].content, now))
          /\ nextId' = nextId + 1
          /\ event' = "poll: created"
       \/ /\ UNCHANGED <<items, nextId>>
          /\ event' = "poll: create error"
    /\ poller' = [poller EXCEPT ![g] = PollerIdle("select")]
    /\ UNCHANGED <<settings, now, clip, config, lastHash, isRunning,
                   ctxDone, started, cleaner, recall, ticker, out, hotkeys>>

\* select in monitorClipboard takes <-cm.ctx.Done()
PollExit(g) ==
    /\ poller[g].pc = "select"
    /\ ctxDone
    /\ poller' = [poller EXCEPT ![g] = PollerIdle("exited")]
    /\ event' = "poll: exit"
    /\ UNCHANGED <<items, settings, nextId, now, clip, config, lastHash,
                   isRunning, ctxDone, started, cleaner, recall, ticker, out, hotkeys>>

\* ------------------------------------------------------- cleanup goroutine
Range(f) == {f[i] : i \in DOMAIN f}
Min(a, b) == IF a < b THEN a ELSE b

\* the same query ordered by created_at DESC
NewestItems(tbl, n) ==
    LET np == NonPinned(tbl)
        k == Min(n, Cardinality(np))
    IN  {l \in [1..k -> np] :
           /\ \A i, j \in 1..k : i < j =>
                 /\ l[i] # l[j]
                 /\ tbl[l[i]].CreatedAt >= tbl[l[j]].CreatedAt
           /\ \A id \in np \ Range(l) : \A i \in 1..k :
                 tbl[l[i]].CreatedAt >= tbl[id].CreatedAt}

\* the possible results of
\*   Where("is_pinned = false").Order("created_at ASC").Limit(n).Find(..)
\* (rows with equal created_at come in any order)
OldestItems(tbl, n) ==
    LET np == NonPinned(tbl)
        k == Min(n, Cardinality(np))
    IN  {l \in [1..k -> np] :
           /\ \A i, j \in 1..k : i < j =>
                 /\ l[i] # l[j]
                 /\ tbl[l[i]].CreatedAt <= tbl[l[j]].CreatedAt
           /\ \A id \in np \ Range(l) : \A i \in 1..k :
                 tbl[l[i]].CreatedAt <= tbl[id].CreatedAt}

\* the age rule without "AND is_pinned = false"
ExpiredAnyPin(tbl, cutoff) == {id \in DOMAIN tbl : tbl[id].CreatedAt < cutoff}

\* the rows the age rule deletes
Expired(tbl, cutoff) == {id \in NonPinned(tbl) : tbl[id].CreatedAt < cutoff}

\* runCleanup leaving its loop when performCleanup logs an error
CleanerDoneErrorExits(g, outcome) ==
    /\ cleaner' = [cleaner EXCEPT ![g] =
          IF outcome = "cleanup: completed"
          THEN CleanerIdle("select") ELSE CleanerIdle("exited")]
    /\ event' = outcome

\* performCleanup returns and logs the outcome
CleanerDone(g, outcome) ==
    /\ cleaner' = [cleaner EXCEPT ![g] = CleanerIdle("select")]
    /\ event' = outcome

\* performCleanup with the settings of the first run instead of GetSettings
CleanupBeginFirstSettings(g) ==
    /\ cleaner[g].pc = "select"
    /\ \/ /\ cleaner' = [cleaner EXCEPT ![g] =
                [pc |-> "age", maxItems |-> 1, cutoff |-> now - 1,
                 itemsToDelete |-> 0, oldestItems |-> <<>>]]
          /\ event' = "cleanup: running"
       \/ CleanerDone(g, "cleanup: settings error")
    /\ UNCHANGED <<items, settings, nextId, now, clip, config, lastHash,
                   isRunning, ctxDone, started, poller, recall, ticker, out, hotkeys>>

\* select in runCleanup takes <-cleanupTicker.C; performCleanup reads the
\* settings row and CleanupOldItems computes cutoffDate
CleanupBegin(g) ==
    /\ cleaner[g].pc = "select"
    /\ \/ /\ cleaner' = [cleaner EXCEPT ![g] =
                [pc |-> "age", maxItems |-> settings.MaxItems,
                 cutoff |-> now - settings.MaxDays, itemsToDelete |-> 0,
                 oldestItems |-> <<>>]]
          /\ event' = "cleanup: running"
       \/ CleanerDone(g, "cleanup: settings error")
    /\ UNCHANGED <<items, settings, nextId, now, clip, config, lastHash,
                   isRunning, ctxDone, started, poller, recall, ticker, out, hotkeys>>

\* DELETE .. WHERE created_at < cutoffDate AND is_pinned = false
CleanupAge(g) ==
    /\ cleaner[g].pc = "age"
    /\ \/ /\ items' = DeleteRows(items, Expired(items, cleaner[g].cutoff))
          /\ cleaner' = [cleaner EXCEPT ![g].pc = "count"]
          /\ event' = "cleanup: aged"
       \/ /\ UNCHANGED items
          /\ CleanerDone(g, "cleanup: error")
    /\ UNCHANGED <<settings, nextId, now, clip, config, lastHash, isRunning,
                   ctxDone, started, poller, recall, ticker, out, hotkeys>>

\* SELECT count(*) .. WHERE is_pinned = false; if int(count) > maxItems
CleanupCount(g) ==
    /\ cleaner[g].pc = "count"
    /\ LET count == Cardinality(NonPinned(items))
       IN  \/ /\ count > cleaner[g].maxItems
              /\ cleaner' = [cleaner EXCEPT ![g].pc = "find",
                               ![g].itemsToDelete = count - cleaner[g].maxItems]
              /\ event' = "cleanup: over limit"
           \/ /\ count <= cleaner[g].maxItems
              /\ CleanerDone(g, "cleanup: completed")
           \/ CleanerDone(g, "cleanup: error")
    /\ UNCHANGED <<items, settings, nextId, now, clip, config, lastHash,
                   isRunning, ctxDone, started, poller, recall, ticker, out, hotkeys>>

\* the query for the oldest itemsToDelete unpinned rows
CleanupFind(g) ==
    /\ cleaner[g].pc = "find"
    /\ \/ \E l \in OldestItems(items, cleaner[g].itemsToDelete) :
            IF l = <<>>
            THEN CleanerDone(g, "cleanup: completed")
            ELSE /\ cleaner' = [cleaner EXCEPT ![g].pc = "delete",
                                  ![g].oldestItems = l]
                 /\ event' = "cleanup: found oldest"
       \/ CleanerDone(g, "cleanup: error")
    /\ UNCHANGED <<items, settings, nextId, now, clip, config, lastHash,
                   isRunning, ctxDone, started, poller, recall, ticker, out, hotkeys>>

\* one iteration of: for _, item := range oldestItems { d.DB.Delete(&item) }
CleanupDelete(g) ==
    /\ cleaner[g].pc = "delete"
    /\ \/ /\ items' = DeleteRows(items, {Head(cleaner[g].oldestItems)})
          /\ IF Len(cleaner[g].oldestItems) = 1
             THEN CleanerDone(g, "cleanup: completed")
             ELSE /\ cleaner' = [cleaner EXCEPT
                                   ![g].oldestItems = Tail(cleaner[g].oldestItems)]
                  /\ event' = "cleanup: deleted one"
       \/ /\ UNCHANGED items
          /\ CleanerDone(g, "cleanup: error")
    /\ UNCHANGED <<settings, nextId, now, clip, config, lastHash, isRunning,
                   ctxDone, started, poller, recall, ticker, out, hotkeys>>

\* select in runCleanup takes <-cm.ctx.Done()
CleanupExit(g) ==
    /\ cleaner[g].pc = "select"
    /\ ctxDone
    /\ cleaner' = [cleaner EXCEPT ![g] = CleanerIdle("exited")]
    /\ event' = "cleanup: exit"
    /\ UNCHANGED <<items, settings, nextId, now, clip, config, lastHash,
                   isRunning, ctxDone, started, poller, recall, ticker, out, hotkeys>>

\* ------------------------------------------------- calls from the UI layer
PinItem(id, pinned) ==
    /\ items' = [i \in DOMAIN items |->
                   IF i = id THEN [items[i] EXCEPT !.IsPinned = pinned] ELSE items[i]]
    /\ event' = "pin"
    /\ UNCHANGED <<settings, nextId, now, clip, config, lastHash, isRunning,
                   ctxDone, started, poller, cleaner, recall, ticker, out, hotkeys>>

DeleteItem(id) ==
    /\ items' = DeleteRows(items, {id})
    /\ event' = "delete"
    /\ UNCHANGED <<settings, nextId, now, clip, config, lastHash, isRunning,
                   ctxDone, started, poller, cleaner, recall, ticker, out, hotkeys>>

\* ClearAllItems: with preservePinned the DELETE has the condition
\* is_pinned = false; without it the DELETE has no condition at all, which
\* gorm refuses (ErrMissingWhereClause) and no row is deleted
ClearAll(preservePinned) ==
    /\ IF preservePinned
       THEN /\ items' = DeleteRows(items, NonPinned(items))
            /\ event' = "clear all"
       ELSE /\ UNCHANGED items
            /\ event' = "clear all: error"
    /\ UNCHANGED <<settings, nextId, now, clip, config, lastHash, isRunning,
                   ctxDone, started, poller, cleaner, recall, ticker, out, hotkeys>>

ContentTypes == {"text", "image", "file"}

ClearByType(contentType, preservePinned) ==
    /\ items' = DeleteRows(items,
                  {id \in DOMAIN items :
                     /\ items[id].ContentType = contentType
                     /\ (preservePinned => ~items[id].IsPinned)})
    /\ event' = "clear by type"
    /\ UNCHANGED <<settings, nextId, now, clip, config, lastHash, isRunning,
                   ctxDone, started, poller, cleaner, recall, ticker, out, hotkeys>>

\* CopyItemToClipboard without item.LastAccessed = time.Now()
RecallReadKeepsAccessTime(id) ==
    /\ recall.pc = "idle"
    /\ IF id \in DOMAIN items
       THEN /\ recall' = [pc |-> "save", item |-> items[id]]
            /\ event' = "recall: read"
       ELSE /\ recall' = RecallIdle
            /\ event' = "recall: not found"
    /\ UNCHANGED <<items, settings, nextId, now, clip, config, lastHash,
                   isRunning, ctxDone, started, poller, cleaner, ticker, out, hotkeys>>

\* CopyItemToClipboard also stamping CreatedAt
RecallReadStampsCreated(id) ==
    /\ recall.pc = "idle"
    /\ IF id \in DOMAIN items
       THEN /\ recall' = [pc |-> "save",
                          item |-> [items[id] EXCEPT !.LastAccessed = now,
                                                     !.CreatedAt = now]]
            /\ event' = "recall: read"
       ELSE /\ recall' = RecallIdle
            /\ event' = "recall: not found"
    /\ UNCHANGED <<items, settings, nextId, now, clip, config, lastHash,
                   isRunning, ctxDone, started, poller, cleaner, ticker, out, hotkeys>>

\* CopyItemToClipboard: cm.db.GetClipboardItemByID(id); item.LastAccessed = now
RecallRead(id) ==
    /\ recall.pc = "idle"
    /\ IF id \in DOMAIN items
       THEN /\ recall' = [pc |-> "save",
                          item |-> [items[id] EXCEPT !.LastAccessed = now]]
            /\ event' = "recall: read"
       ELSE /\ recall' = RecallIdle
            /\ event' = "recall: not found"
    /\ UNCHANGED <<items, settings, nextId, now, clip, config, lastHash,
                   isRunning, ctxDone, started, poller, cleaner, ticker, out, hotkeys>>

\* CopyItemToClipboard removing the row it recalled
RecallSaveRemoves ==
    /\ recall.pc = "save"
    /\ items' = DeleteRows(items, {recall.item.ID})
    /\ \E writeOk \in BOOLEAN :
         /\ clip' = IF writeOk THEN recall.item.ContentText ELSE clip
         /\ event' = IF writeOk THEN "recall: ok" ELSE "recall: write error"
    /\ recall' = RecallIdle
    /\ UNCHANGED <<settings, nextId, now, config, lastHash, isRunning,
                   ctxDone, started, poller, cleaner, ticker, out, hotkeys>>

\* CopyItemToClipboard: cm.db.UpdateClipboardItem(item) (an error is only
\* logged); clipboard.WriteAll(item.ContentText)
RecallSave ==
    /\ recall.pc = "save"
    /\ \E saveOk, writeOk \in BOOLEAN :
         /\ items' = IF saveOk THEN SaveRow(items, recall.item) ELSE items
         /\ clip' = IF writeOk THEN recall.item.ContentText ELSE clip
         /\ event' = IF ~writeOk THEN "recall: write error"
                     ELSE IF ~saveOk THEN "recall: save error"
                     ELSE "recall: ok"
    /\ recall' = RecallIdle
    /\ UNCHANGED <<settings, nextId, now, config, lastHash, isRunning,
                   ctxDone, started, poller, cleaner, ticker, out, hotkeys>>

\* Database.UpdateSettings with new retention values: d.DB.Save(settings)
UpdateSettings(maxItems, maxDays) ==
    /\ settings' = [settings EXCEPT !.MaxItems = maxItems, !.MaxDays = maxDays]
    /\ event' = "settings"
    /\ UNCHANGED <<items, nextId, now, clip, config, lastHash, isRunning,
                   ctxDone, started, poller, cleaner, recall, ticker, out, hotkeys>>

Configs ==
    {[NewConfig EXCEPT !.PollingInterval = pi, !.MonitoringEnabled = me,
                       !.AllowPasswords = ap] :
        pi \in IntervalChoices, me \in BOOLEAN, ap \in BOOLEAN}

\* ClipboardMonitor.UpdateConfig(cfg), App.ToggleMonitoring
UpdateConfig(cfg) ==
    /\ config' = cfg
    /\ event' = "config"
    /\ UNCHANGED <<items, settings, nextId, now, clip, lastHash, isRunning,
                   ctxDone, started, poller, cleaner, recall, ticker, out, hotkeys>>

\* a value of type interface{}: its dynamic type and the value
GoValue(type, val) == [type |-> type, val |-> val]

\* Config.UpdateFromSettings with a wrong-typed value storing the zero value
UpdateFromSettingsZeroes(c, m) ==
    LET has(key) == key \in DOMAIN m
        field(key, type, old, zero) ==
            IF ~has(key) THEN old
            ELSE IF m[key].type = type THEN m[key].val ELSE zero
    IN  [PollingInterval |-> field("pollingInterval", "int", c.PollingInterval, 0),
         MaxItems |-> field("maxItems", "int", c.MaxItems, 0),
         MaxDays |-> field("maxDays", "int", c.MaxDays, 0),
         MonitoringEnabled |->
             field("monitoringEnabled", "bool", c.MonitoringEnabled, FALSE),
         GlobalHotkey |-> field("globalHotkey", "string", c.GlobalHotkey, ""),
         PreviousHotkey |->
             field("previousItemHotkey", "string", c.PreviousHotkey, ""),
         AutoLaunch |-> field("autoLaunch", "bool", c.AutoLaunch, FALSE),
         EnableSounds |-> field("enableSounds", "bool", c.EnableSounds, FALSE),
         AllowPasswords |->
             field("allowPasswords", "bool", c.AllowPasswords, FALSE)]

\* Config.UpdateFromSettings with a missing key restoring the default
UpdateFromSettingsResets(c, m) ==
    LET field(key, type, old, default) ==
            IF key \notin DOMAIN m THEN default
            ELSE IF m[key].type = type THEN m[key].val ELSE old
    IN  [PollingInterval |-> field("pollingInterval", "int", c.PollingInterval,
                                   NewConfig.PollingInterval),
         MaxItems |-> field("maxItems", "int", c.MaxItems, NewConfig.MaxItems),
         MaxDays |-> field("maxDays", "int", c.MaxDays, NewConfig.MaxDays),
         MonitoringEnabled |->
             field("monitoringEnabled", "bool", c.MonitoringEnabled,
                   NewConfig.MonitoringEnabled),
         GlobalHotkey |-> field("globalHotkey", "string", c.GlobalHotkey,
                                NewConfig.GlobalHotkey),
         PreviousHotkey |->
             field("previousItemHotkey", "string", c.PreviousHotkey,
                   NewConfig.PreviousHotkey),
         AutoLaunch |-> field("autoLaunch", "bool", c.AutoLaunch,
                              NewConfig.AutoLaunch),
         EnableSounds |-> field("enableSounds", "bool", c.EnableSounds,
                                NewConfig.EnableSounds),
         AllowPasswords |->
             field("allowPasswords", "bool", c.AllowPasswords,
                   NewConfig.AllowPasswords)]

\* Config.UpdateFromSettings(settings): each field is assigned when the type
\* assertion on its key succeeds (the polling interval is kept in
\* milliseconds)
UpdateFromSettings(c, m) ==
    LET field(key, type, old) ==
            IF key \in DOMAIN m /\ m[key].type = type THEN m[key].val ELSE old
    IN  [PollingInterval |-> field("pollingInterval", "int", c.PollingInterval),
         MaxItems |-> field("maxItems", "int", c.MaxItems),
         MaxDays |-> field("maxDays", "int", c.MaxDays),
         MonitoringEnabled |->
             field("monitoringEnabled", "bool", c.MonitoringEnabled),
         GlobalHotkey |-> field("globalHotkey", "string", c.GlobalHotkey),
         PreviousHotkey |->
             field("previousItemHotkey", "string", c.PreviousHotkey),
         AutoLaunch |-> field("autoLaunch", "bool", c.AutoLaunch),
         EnableSounds |-> field("enableSounds", "bool", c.EnableSounds),
         AllowPasswords |-> field("allowPasswords", "bool", c.AllowPasswords)]

\* the settings the settings window can save, retention values left alone
SettingsChoices ==
    {[DefaultSettings EXCEPT !.PollingInterval = pi, !.MonitoringEnabled = me,
                             !.AllowPasswords = ap] :
        pi \in IntervalChoices, me \in BOOLEAN, ap \in BOOLEAN}

\* the settingsMap App.UpdateSettings builds from the settings row; the
\* hotkey, auto-launch and sound settings are not part of the modelled row
SettingsMap(s) ==
    [key \in {"pollingInterval", "maxItems", "maxDays", "monitoringEnabled"} |->
        IF key = "pollingInterval" THEN GoValue("int", s.PollingInterval)
        ELSE IF key = "maxItems" THEN GoValue("int", s.MaxItems)
        ELSE IF key = "maxDays" THEN GoValue("int", s.MaxDays)
        ELSE GoValue("bool", s.MonitoringEnabled)]

\* App.UpdateSettings: a.db.UpdateSettings(settings), then
\* a.config.UpdateFromSettings(settingsMap), whose map has no "allowPasswords"
\* key, then UpdateConfig(a.config)
AppUpdateSettings(s) ==
    /\ \/ /\ settings' = s
          /\ config' = UpdateFromSettings(config, SettingsMap(s))
          /\ event' = "settings: saved"
       \/ /\ UNCHANGED <<settings, config>>
          /\ event' = "settings: error"
    /\ UNCHANGED <<items, nextId, now, clip, lastHash, isRunning, ctxDone,
                   started, poller, cleaner, recall, ticker, out, hotkeys>>

\* App.ToggleMonitoring: flips a.config.MonitoringEnabled, then writes it to
\* the settings row (errors of GetSettings and UpdateSettings are ignored)
ToggleMonitoring ==
    /\ config' = [config EXCEPT !.MonitoringEnabled = ~config.MonitoringEnabled]
    /\ \E saveOk \in BOOLEAN :
          settings' = IF saveOk
                      THEN [settings EXCEPT
                              !.MonitoringEnabled = ~config.MonitoringEnabled]
                      ELSE settings
    /\ event' = "toggle"
    /\ UNCHANGED <<items, nextId, now, clip, lastHash, isRunning, ctxDone,
                   started, poller, cleaner, recall, ticker, out, hotkeys>>

\* Database.CreateClipboardItem called directly, as the database tests do
CreateClipboardItem(item) ==
    /\ nextId <= MaxIds
    /\ item.ID = nextId
    /\ items' = SaveRow(items, item)
    /\ nextId' = nextId + 1
    /\ event' = "create"
    /\ UNCHANGED <<settings, now, clip, config, lastHash, isRunning,
                   ctxDone, started, poller, cleaner, recall, ticker, out, hotkeys>>

\* ----------------------------------------------------------------- queries
SortOrders == {"copied", "pasted"}
PreviewLength == 200
SearchTerms == {<<"H">>, <<"p", "n", "g">>}
Limits == {1, 2}

\* an ordering by recency alone, pinned rows not first
OrderedBeforeUnpinned(a, b, sortByRecent) ==
    LET key(r) == IF sortByRecent = "copied" THEN r.CreatedAt ELSE r.LastAccessed
    IN  key(a) > key(b)

\* ORDER BY is_pinned DESC, created_at DESC | last_accessed DESC: a comes
\* strictly before b
OrderedBefore(a, b, sortByRecent) ==
    LET key(r) == IF sortByRecent = "copied" THEN r.CreatedAt ELSE r.LastAccessed
    IN  \/ a.IsPinned /\ ~b.IsPinned
        \/ a.IsPinned = b.IsPinned /\ key(a) > key(b)

\* the orders in which the database may return the rows: ties are in any order
Orderings(tbl, rows, sortByRecent) ==
    {q \in [1..Cardinality(rows) -> rows] :
        /\ \A i, j \in DOMAIN q : i # j => q[i] # q[j]
        /\ \A i, j \in DOMAIN q :
              i < j => ~OrderedBefore(tbl[q[j]], tbl[q[i]], sortByRecent)}

\* LIMIT limit OFFSET offset
Page(q, limit, offset) == SubSeq(q, offset + 1, Min(offset + limit, Len(q)))

\* preview_text LIKE %searchTerm% (LIKE ignores ASCII case)
MatchesTerm(row, searchTerm) ==
    Contains(ToLower(TruncatePreview(row.ContentText, PreviewLength)),
             ToLower(searchTerm))

\* Database.GetClipboardItems(limit, offset, contentType, sortByRecent)
GetClipboardItems(limit, offset, contentType, sortByRecent) ==
    /\ \/ /\ LET rows == {id \in DOMAIN items :
                             contentType = "" \/ items[id].ContentType = contentType}
             IN  \E q \in Orderings(items, rows, sortByRecent) :
                    out' = [fn |-> "GetClipboardItems", limit |-> limit,
                            offset |-> offset, sortByRecent |-> sortByRecent,
                            arg |-> contentType,
                            value |-> Page(q, limit, offset)]
          /\ event' = "get items"
       \/ /\ out' = [fn |-> "GetClipboardItems", limit |-> limit,
                     offset |-> offset, sortByRecent |-> sortByRecent,
                     arg |-> contentType, value |-> << >>]
          /\ event' = "get items: error"
    /\ UNCHANGED <<items, settings, nextId, now, clip, config, lastHash,
                   isRunning, ctxDone, started, poller, cleaner, recall, ticker, hotkeys>>

\* Database.SearchClipboardItems(searchTerm, limit, offset, sortByRecent)
SearchClipboardItems(searchTerm, limit, offset, sortByRecent) ==
    /\ \/ /\ LET rows == {id \in DOMAIN items : MatchesTerm(items[id], searchTerm)}
             IN  \E q \in Orderings(items, rows, sortByRecent) :
                    out' = [fn |-> "SearchClipboardItems", limit |-> limit,
                            offset |-> offset, sortByRecent |-> sortByRecent,
                            arg |-> searchTerm,
                            value |-> Page(q, limit, offset)]
          /\ event' = "search"
       \/ /\ out' = [fn |-> "SearchClipboardItems", limit |-> limit,
                     offset |-> offset, sortByRecent |-> sortByRecent,
                     arg |-> searchTerm, value |-> << >>]
          /\ event' = "search: error"
    /\ UNCHANGED <<items, settings, nextId, now, clip, config, lastHash,
                   isRunning, ctxDone, started, poller, cleaner, recall, ticker, hotkeys>>

\* the REGEXP operator on a pattern of literals, ".", "x*", a leading "^" and
\* a trailing "$": the pattern matches somewhere in the text
RECURSIVE RegexMatchHere(_, _)
RegexMatchHere(pattern, text) ==
    IF Len(pattern) = 0 THEN TRUE
    ELSE IF Len(pattern) >= 2 /\ pattern[2] = "*"
         THEN \E k \in 0..Len(text) :
                 /\ \A i \in 1..k : pattern[1] = "." \/ pattern[1] = text[i]
                 /\ RegexMatchHere(SubSeq(pattern, 3, Len(pattern)),
                                   SubSeq(text, k + 1, Len(text)))
    ELSE IF pattern = <<"$">> THEN Len(text) = 0
    ELSE /\ Len(text) > 0
         /\ pattern[1] = "." \/ pattern[1] = text[1]
         /\ RegexMatchHere(Tail(pattern), Tail(text))

RegexMatch(pattern, text) ==
    IF Len(pattern) > 0 /\ pattern[1] = "^"
    THEN RegexMatchHere(Tail(pattern), text)
    ELSE \E i \in 0..Len(text) :
            RegexMatchHere(pattern, SubSeq(text, i + 1, Len(text)))

RegexPatterns == {<<"^", "/">>, <<"h", ".", "*", "$">>}

\* preview_text REGEXP regexPattern
MatchesRegex(row, regexPattern) ==
    RegexMatch(regexPattern, TruncatePreview(row.ContentText, PreviewLength))

\* Database.SearchClipboardItemsRegex(regexPattern, limit, offset,
\* sortByRecent): the error is also the answer of a SQLite without REGEXP
SearchClipboardItemsRegex(regexPattern, limit, offset, sortByRecent) ==
    /\ \/ /\ LET rows == {id \in DOMAIN items :
                             MatchesRegex(items[id], regexPattern)}
             IN  \E q \in Orderings(items, rows, sortByRecent) :
                    out' = [fn |-> "SearchClipboardItemsRegex", limit |-> limit,
                            offset |-> offset, sortByRecent |-> sortByRecent,
                            arg |-> regexPattern,
                            value |-> Page(q, limit, offset)]
          /\ event' = "regex search"
       \/ /\ out' = [fn |-> "SearchClipboardItemsRegex", limit |-> limit,
                     offset |-> offset, sortByRecent |-> sortByRecent,
                     arg |-> regexPattern, value |-> << >>]
          /\ event' = "regex search: error"
    /\ UNCHANGED <<items, settings, nextId, now, clip, config, lastHash,
                   isRunning, ctxDone, started, poller, cleaner, recall, ticker, hotkeys>>

\* Database.GetClipboardItemByID(id): the row, or a zero item and an error
GetClipboardItemByID(id) ==
    /\ \/ /\ id \in DOMAIN items
          /\ out' = [fn |-> "GetClipboardItemByID", value |-> items[id]]
          /\ event' = "get by id"
       \/ /\ out' = [fn |-> "GetClipboardItemByID", value |-> NoItem]
          /\ event' = "get by id: error"
    /\ UNCHANGED <<items, settings, nextId, now, clip, config, lastHash,
                   isRunning, ctxDone, started, poller, cleaner, recall, ticker, hotkeys>>

\* ------------------------------------------------------------- hotkeys
ModifierNames ==
    {"Cmd", "Command", "Super", "Shift", "Ctrl", "Control", "Alt", "Option"}
KeyNames ==
    {"A", "B", "C", "D", "E", "F", "G", "H", "I", "J", "K", "L", "M", "N", "O",
     "P", "Q", "R", "S", "T", "U", "V", "W", "X", "Y", "Z", "SPACE", "DELETE",
     "RETURN", "ESCAPE", "TAB"}

\* parseHotkey(hotkeyStr) returns no error: every part but the last is a
\* modifier and the last is a key of keyMap (names in their usual spelling)
parseHotkey(hotkeyStr) ==
    /\ Len(hotkeyStr) > 0
    /\ \A i \in 1..(Len(hotkeyStr) - 1) : hotkeyStr[i] \in ModifierNames
    /\ hotkeyStr[Len(hotkeyStr)] \in KeyNames

\* services.NewHotkeyManager(), of either implementation
NewHotkeyManager(impl) ==
    /\ hotkeys' = [NoHotkeyManager EXCEPT !.impl = impl]
    /\ out' = [fn |-> "NewHotkeyManager"]
    /\ event' = "hotkey: new"
    /\ UNCHANGED <<items, settings, nextId, now, clip, config, lastHash,
                   isRunning, ctxDone, started, poller, cleaner, recall, ticker>>

\* HotkeyManager.Register(hotkeyStr, callback)
HotkeyRegister(hotkeyStr, callback) ==
    /\ hotkeys.impl # "none"
    /\ LET stored == [hotkeys EXCEPT !.callbacks[hotkeyStr] = callback,
                                     !.registered = @ \cup {hotkeyStr}]
       IN  \/ /\ hotkeys.impl = "simplified"
              /\ hotkeys' = stored
              /\ event' = "hotkey: registered"
           \/ /\ hotkeys.impl = "global"
              /\ \/ hotkeyStr \in hotkeys.registered
                 \/ ~parseHotkey(hotkeyStr)
              /\ hotkeys' = hotkeys
              /\ event' = "hotkey: register error"
           \/ /\ hotkeys.impl = "global"
              /\ hotkeyStr \notin hotkeys.registered
              /\ parseHotkey(hotkeyStr)
              /\ \/ /\ hotkeys' = stored
                    /\ event' = "hotkey: registered"
                 \/ /\ hotkeys' = hotkeys
                    /\ event' = "hotkey: register error"
    /\ out' = [fn |-> "Register", hotkey |-> hotkeyStr, callback |-> callback,
               again |-> hotkeyStr \in hotkeys.registered]
    /\ UNCHANGED <<items, settings, nextId, now, clip, config, lastHash,
                   isRunning, ctxDone, started, poller, cleaner, recall, ticker>>

\* HotkeyManager.Unregister(hotkeyStr)
HotkeyUnregister(hotkeyStr) ==
    /\ hotkeys.impl # "none"
    /\ hotkeys' = [hotkeys EXCEPT !.callbacks[hotkeyStr] = NoCallback,
                                  !.registered = @ \ {hotkeyStr}]
    /\ out' = [fn |-> "Unregister", hotkey |-> hotkeyStr]
    /\ event' = "hotkey: unregistered"
    /\ UNCHANGED <<items, settings, nextId, now, clip, config, lastHash,
                   isRunning, ctxDone, started, poller, cleaner, recall, ticker>>

\* HotkeyManager.Start()
HotkeyStart ==
    /\ hotkeys.impl # "none"
    /\ IF hotkeys.impl = "simplified" /\ hotkeys.isRunning
       THEN /\ hotkeys' = hotkeys
            /\ event' = "hotkey: already running"
       ELSE /\ hotkeys' = [hotkeys EXCEPT !.isRunning = TRUE]
            /\ event' = "hotkey: started"
    /\ out' = [fn |-> "Start"]
    /\ UNCHANGED <<items, settings, nextId, now, clip, config, lastHash,
                   isRunning, ctxDone, started, poller, cleaner, recall, ticker>>

\* HotkeyManager.Stop(): the implementation on golang.design/x/hotkey also
\* unregisters every hotkey
HotkeyStop ==
    /\ hotkeys.impl # "none"
    /\ IF ~hotkeys.isRunning
       THEN /\ hotkeys' = hotkeys
            /\ event' = "hotkey: not running"
       ELSE /\ hotkeys' =
                 IF hotkeys.impl = "simplified"
                 THEN [hotkeys EXCEPT !.isRunning = FALSE]
                 ELSE [hotkeys EXCEPT
                         !.isRunning = FALSE,
                         !.callbacks = [h \in HotkeyStrs |-> NoCallback],
                         !.registered = {}]
            /\ event' = "hotkey: stopped"
    /\ out' = [fn |-> "Stop"]
    /\ UNCHANGED <<items, settings, nextId, now, clip, config, lastHash,
                   isRunning, ctxDone, started, poller, cleaner, recall, ticker>>

\* HotkeyManager.TriggerHotkey(hotkeyStr), or the key press the listener
\* goroutine of Register receives: the callback stored for the string runs
TriggerHotkey(hotkeyStr) ==
    /\ hotkeys.impl # "none"
    /\ hotkeys' = [hotkeys EXCEPT
                     !.key = hotkeyStr,
                     !.called = IF hotkeys.callbacks[hotkeyStr] # NoCallback
                                THEN {hotkeys.callbacks[hotkeyStr]} ELSE {}]
    /\ event' = "hotkey: triggered"
    /\ UNCHANGED <<items, settings, nextId, now, clip, config, lastHash,
                   isRunning, ctxDone, started, poller, cleaner, recall, ticker,
                   out>>

\* ------------------------------------------- calls of the pure functions
\* cfg.UpdateFromSettings(m) on the monitor's configuration: the fields are
\* assigned in place and nothing is returned
CallUpdateFromSettings(m) ==
    /\ config' = UpdateFromSettings(config, m)
    /\ out' = [fn |-> "UpdateFromSettings", cfg |-> config, settings |-> m,
               value |-> UpdateFromSettings(config, m)]
    /\ event' = "update from settings"
    /\ UNCHANGED <<items, settings, nextId, now, clip, lastHash, isRunning,
                   ctxDone, started, poller, cleaner, recall, ticker, hotkeys>>

CallShouldSkipContent ==
    /\ out' = [fn |-> "ShouldSkipContent", cfg |-> config, content |-> clip,
               value |-> ShouldSkipContent(config, clip)]
    /\ UNCHANGED <<items, settings, nextId, now, clip, config, lastHash,
                   isRunning, ctxDone, started, event, poller, cleaner,
                   recall, ticker, hotkeys>>

CallIsLikelyPassword ==
    /\ out' = [fn |-> "isLikelyPassword", content |-> clip,
               value |-> isLikelyPassword(clip)]
    /\ UNCHANGED <<items, settings, nextId, now, clip, config, lastHash,
                   isRunning, ctxDone, started, event, poller, cleaner,
                   recall, ticker, hotkeys>>

CallDetectContentType ==
    /\ out' = [fn |-> "detectContentType", content |-> clip,
               value |-> detectContentType(clip)]
    /\ UNCHANGED <<items, settings, nextId, now, clip, config, lastHash,
                   isRunning, ctxDone, started, event, poller, cleaner,
                   recall, ticker, hotkeys>>

\* TruncatePreview(text, maxLength) on a text without Block
CallTruncatePreview(maxLength) ==
    /\ \A i \in 1..Len(clip) : clip[i] # Block
    /\ out' = [fn |-> "TruncatePreview", text |-> clip, maxLength |-> maxLength,
               value |-> TruncatePreview(clip, maxLength)]
    /\ UNCHANGED <<items, settings, nextId, now, clip, config, lastHash,
                   isRunning, ctxDone, started, event, poller, cleaner,
                   recall, ticker, hotkeys>>

\* ------------------------------------------------------------ environment
\* the user copies something
UserCopy(content) ==
    /\ clip' = content
    /\ event' = "copy"
    /\ UNCHANGED <<items, settings, nextId, now, config, lastHash, isRunning,
                   ctxDone, started, poller, cleaner, recall, ticker, out, hotkeys>>

\* a day passes
AdvanceClock ==
    /\ now < MaxTime
    /\ now' = now + 1
    /\ event' = "clock"
    /\ UNCHANGED <<items, settings, nextId, clip, config, lastHash, isRunning,
                   ctxDone, started, poller, cleaner, recall, ticker, out, hotkeys>>

\* ---------------------------------------------------------- specifications
PollStep(g) ==
    \/ PollBegin(g)
    \/ PollLookup(g)
    \/ PollUpdate(g)
    \/ PollCreate(g)
    \/ PollExit(g)

CleanupStep(g) ==
    \/ CleanupBegin(g)
    \/ CleanupAge(g)
    \/ CleanupCount(g)
    \/ CleanupFind(g)
    \/ CleanupDelete(g)
    \/ CleanupExit(g)

Next ==
    \/ Start
    \/ Stop
    \/ \E g \in Gens : PollStep(g)
    \/ \E g \in Gens : CleanupStep(g)
    \/ \E id \in Ids, pinned \in BOOLEAN : PinItem(id, pinned)
    \/ \E id \in Ids : DeleteItem(id)
    \/ \E preservePinned \in BOOLEAN : ClearAll(preservePinned)
    \/ \E ct \in ContentTypes, preservePinned \in BOOLEAN : ClearByType(ct, preservePinned)
    \/ \E id \in Ids : RecallRead(id)
    \/ RecallSave
    \/ \E mi \in MaxItemsChoices, md \in MaxDaysChoices : UpdateSettings(mi, md)
    \/ \E cfg \in Configs : UpdateConfig(cfg)
    \/ \E s \in SettingsChoices : AppUpdateSettings(s)
    \/ ToggleMonitoring
    \/ \E c \in Contents : UserCopy(c)
    \/ AdvanceClock

Spec == Init /\ [][Next]_vars

\* A poll tick, a cleanup run or a recall is in progress
PollerBusy(g) == poller[g].pc \in {"lookup", "update", "create"}
CleanerBusy(g) == cleaner[g].pc \in {"age", "count", "find", "delete"}
RecallBusy == recall.pc = "save"
AllQuiet ==
    /\ \A g \in Gens : ~PollerBusy(g) /\ ~CleanerBusy(g)
    /\ ~RecallBusy

FirstSettings == DefaultSettings

StorageFaults ==
    {"poll: lookup error", "poll: update error", "poll: create error",
     "cleanup: settings error", "cleanup: error"}
NoStorageFault == event' \notin StorageFaults

\* The monitor's life cycle: Start, Stop and the two goroutines of each Start
\* in any interleaving, while the user copies a text or blanks; the storage
\* does not fail.
LifeInit == Init /\ settings = FirstSettings /\ clip = cBlank

LifeNext ==
    \/ Start
    \/ Stop
    \/ \E g \in Gens : PollBegin(g)
    \/ \E g \in Gens : PollLookup(g) /\ NoStorageFault
    \/ \E g \in Gens : PollUpdate(g) /\ NoStorageFault
    \/ \E g \in Gens : PollCreate(g) /\ NoStorageFault
    \/ \E g \in Gens : PollExit(g)
    \/ \E g \in Gens : CleanupBegin(g) /\ NoStorageFault
    \/ \E g \in Gens : CleanupAge(g) /\ NoStorageFault
    \/ \E g \in Gens : CleanupCount(g) /\ NoStorageFault
    \/ \E g \in Gens : CleanupFind(g) /\ NoStorageFault
    \/ \E g \in Gens : CleanupDelete(g) /\ NoStorageFault
    \/ \E g \in Gens : CleanupExit(g)
    \/ \E c \in {cText, cBlank} : UserCopy(c)

LifeSpec == LifeInit /\ [][LifeNext]_vars

\* The monitor's operations one at a time within one day: a poll tick, a
\* cleanup run or a recall runs to its end before the next operation begins.
SeqInit == Init /\ settings = FirstSettings /\ clip = cBlank

SeqNext ==
    \/ AllQuiet /\ Start
    \/ \E g \in Gens : AllQuiet /\ PollBegin(g)
    \/ \E g \in Gens : PollLookup(g)
    \/ \E g \in Gens : PollUpdate(g)
    \/ \E g \in Gens : PollCreate(g)
    \/ \E g \in Gens : AllQuiet /\ CleanupBegin(g)
    \/ \E g \in Gens : CleanupAge(g)
    \/ \E g \in Gens : CleanupCount(g)
    \/ \E g \in Gens : CleanupFind(g)
    \/ \E g \in Gens : CleanupDelete(g)
    \/ \E id \in Ids, pinned \in BOOLEAN : AllQuiet /\ PinItem(id, pinned)
    \/ \E id \in Ids : AllQuiet /\ DeleteItem(id)
    \/ \E preservePinned \in BOOLEAN : AllQuiet /\ ClearAll(preservePinned)
    \/ \E ct \in ContentTypes, preservePinned \in BOOLEAN :
          AllQuiet /\ ClearByType(ct, preservePinned)
    \/ \E id \in Ids : AllQuiet /\ RecallRead(id)
    \/ RecallSave
    \/ \E c \in {cText, cPath, cBlank} : AllQuiet /\ UserCopy(c)

SeqSpec == SeqInit /\ [][SeqNext]_vars

\* The polling goroutine alone, one tick at a time, while the user copies,
\* deletes entries and days pass.
PollInit == Init /\ settings = FirstSettings /\ clip = cBlank

PollNext ==
    \/ AllQuiet /\ Start
    \/ \E g \in Gens : AllQuiet /\ PollBegin(g)
    \/ \E g \in Gens : PollLookup(g)
    \/ \E g \in Gens : PollUpdate(g)
    \/ \E g \in Gens : PollCreate(g)
    \/ \E id \in Ids : AllQuiet /\ DeleteItem(id)
    \/ \E c \in {cText, cPath, cBlank} : AllQuiet /\ UserCopy(c)
    \/ AllQuiet /\ AdvanceClock

PollSpec == PollInit /\ [][PollNext]_vars

\* The rows a caller of Database.CreateClipboardItem can insert
NewItems ==
    {[NewRow(nextId, cText, t) EXCEPT !.IsPinned = p] :
        t \in 0..now, p \in BOOLEAN}

\* The storage layer with one cleanup goroutine: the monitor is started once
\* with a readable clipboard, rows are inserted and pinned through the
\* Database API, the retention settings change, days pass, and a cleanup run
\* is never interleaved with another operation.
DbInit == Init /\ settings = FirstSettings /\ clip = cBlank

DbNext ==
    \/ ~isRunning /\ Start /\ lastHash' # NoHash
    \/ \E item \in NewItems : AllQuiet /\ CreateClipboardItem(item)
    \/ \E id \in Ids, pinned \in BOOLEAN : AllQuiet /\ PinItem(id, pinned)
    \/ \E mi \in MaxItemsChoices, md \in MaxDaysChoices :
          AllQuiet /\ UpdateSettings(mi, md)
    \/ AllQuiet /\ AdvanceClock
    \/ \E g \in Gens : AllQuiet /\ CleanupBegin(g)
    \/ \E g \in Gens : CleanupAge(g)
    \/ \E g \in Gens : CleanupCount(g)
    \/ \E g \in Gens : CleanupFind(g)
    \/ \E g \in Gens : CleanupDelete(g)

DbSpec == DbInit /\ [][DbNext]_vars

\* A cleanup run interleaved statement by statement with poll ticks and with
\* pin and unpin calls, while the user copies and days pass; the storage does
\* not fail.
ConcInit == Init /\ settings = FirstSettings /\ clip = cBlank

ConcNext ==
    \/ Start
    \/ \E g \in Gens : PollBegin(g)
    \/ \E g \in Gens : PollLookup(g) /\ NoStorageFault
    \/ \E g \in Gens : PollUpdate(g) /\ NoStorageFault
    \/ \E g \in Gens : PollCreate(g) /\ NoStorageFault
    \/ \E c \in {cText, cPath} : UserCopy(c)
    \/ \E id \in Ids, pinned \in BOOLEAN : PinItem(id, pinned)
    \/ AdvanceClock
    \/ \E g \in Gens : CleanupBegin(g) /\ NoStorageFault
    \/ \E g \in Gens : CleanupAge(g) /\ NoStorageFault
    \/ \E g \in Gens : CleanupCount(g) /\ NoStorageFault
    \/ \E g \in Gens : CleanupFind(g) /\ NoStorageFault
    \/ \E g \in Gens : CleanupDelete(g) /\ NoStorageFault

ConcSpec == ConcInit /\ [][ConcNext]_vars

\* The running monitor, one tick at a time, while the settings window saves
\* settings, monitoring is toggled and the monitor is handed another Config;
\* the user copies a text or a password; the storage does not fail.
CfgInit == Init /\ settings = FirstSettings /\ clip = cPass

CfgNext ==
    \/ ~isRunning /\ Start
    \/ \E g \in Gens : AllQuiet /\ PollBegin(g)
    \/ \E g \in Gens : PollLookup(g) /\ NoStorageFault
    \/ \E g \in Gens : PollUpdate(g) /\ NoStorageFault
    \/ \E g \in Gens : PollCreate(g) /\ NoStorageFault
    \/ \E s \in SettingsChoices : AllQuiet /\ AppUpdateSettings(s)
    \/ AllQuiet /\ ToggleMonitoring
    \/ \E cfg \in Configs : AllQuiet /\ UpdateConfig(cfg)
    \/ \E c \in {cText, cPass} : AllQuiet /\ UserCopy(c)

CfgSpec == CfgInit /\ [][CfgNext]_vars

\* A password-like content that stays on the clipboard while the monitor is
\* started and stopped, ticks one at a time, and the configuration changes.
PwInit == Init /\ settings = FirstSettings /\ clip = cPass

PwNext ==
    \/ ~isRunning /\ AllQuiet /\ Start
    \/ AllQuiet /\ Stop
    \/ \E g \in Gens : AllQuiet /\ PollBegin(g)
    \/ \E g \in Gens : PollLookup(g) /\ NoStorageFault
    \/ \E g \in Gens : PollCreate(g) /\ NoStorageFault
    \/ \E g \in Gens : AllQuiet /\ PollExit(g)
    \/ \E s \in SettingsChoices : AllQuiet /\ AppUpdateSettings(s)
    \/ AllQuiet /\ ToggleMonitoring
    \/ \E cfg \in Configs : AllQuiet /\ UpdateConfig(cfg)

PwSpec == PwInit /\ [][PwNext]_vars

\* The life of stored entries: poll ticks, recalls, pins and cleanup runs, one
\* operation at a time, while days pass.
EntryInit == Init /\ settings = FirstSettings /\ clip = cBlank

EntryNext ==
    \/ ~isRunning /\ Start /\ lastHash' # NoHash
    \/ \E g \in Gens : AllQuiet /\ PollBegin(g)
    \/ \E g \in Gens : PollLookup(g) /\ NoStorageFault
    \/ \E g \in Gens : PollUpdate(g) /\ NoStorageFault
    \/ \E g \in Gens : PollCreate(g) /\ NoStorageFault
    \/ \E g \in Gens : AllQuiet /\ CleanupBegin(g)
    \/ \E g \in Gens : CleanupAge(g) /\ NoStorageFault
    \/ \E g \in Gens : CleanupCount(g) /\ NoStorageFault
    \/ \E g \in Gens : CleanupFind(g) /\ NoStorageFault
    \/ \E g \in Gens : CleanupDelete(g) /\ NoStorageFault
    \/ \E id \in Ids, pinned \in BOOLEAN : AllQuiet /\ PinItem(id, pinned)
    \/ \E id \in Ids : AllQuiet /\ RecallRead(id)
    \/ RecallSave
    \/ \E c \in {cText, cPath} : AllQuiet /\ UserCopy(c)
    \/ AllQuiet /\ AdvanceClock

EntrySpec == EntryInit /\ [][EntryNext]_vars

\* The store under every operation that reads or writes it, one operation at
\* a time.
StoreInit == Init /\ settings = FirstSettings /\ clip = cText

StoreNext ==
    \/ ~isRunning /\ Start /\ lastHash' = NoHash
    \/ \E g \in Gens : AllQuiet /\ PollBegin(g)
    \/ \E g \in Gens : PollLookup(g) /\ NoStorageFault
    \/ \E g \in Gens : PollUpdate(g) /\ NoStorageFault
    \/ \E g \in Gens : PollCreate(g) /\ NoStorageFault
    \/ \E g \in Gens : AllQuiet /\ CleanupBegin(g)
    \/ \E g \in Gens : CleanupAge(g) /\ NoStorageFault
    \/ \E g \in Gens : CleanupCount(g) /\ NoStorageFault
    \/ \E g \in Gens : CleanupFind(g) /\ NoStorageFault
    \/ \E g \in Gens : CleanupDelete(g) /\ NoStorageFault
    \/ \E id \in Ids : AllQuiet /\ DeleteItem(id)
    \/ \E preservePinned \in BOOLEAN : AllQuiet /\ ClearAll(preservePinned)
    \/ \E ct \in ContentTypes, preservePinned \in BOOLEAN :
          AllQuiet /\ ClearByType(ct, preservePinned)
    \/ \E id \in Ids : AllQuiet /\ RecallRead(id)
    \/ RecallSave
    \/ \E limit \in Limits, ct \in {"", "image"}, sort \in SortOrders :
          AllQuiet /\ GetClipboardItems(limit, 0, ct, sort)
    \/ \E term \in SearchTerms, limit \in Limits, sort \in SortOrders :
          AllQuiet /\ SearchClipboardItems(term, limit, 0, sort)
    \/ \E id \in Ids : AllQuiet /\ GetClipboardItemByID(id)
    \/ \E c \in {cText, cPath} : AllQuiet /\ UserCopy(c)

StoreSpec == StoreInit /\ [][StoreNext]_vars

\* The pure functions applied to every input of FnInputs, with passwords
\* allowed and not allowed.
FnInit ==
    /\ Init
    /\ settings = FirstSettings
FnNext ==
    \/ \E c \in FnInputs : UserCopy(c)
    \/ \E ap \in BOOLEAN : UpdateConfig([NewConfig EXCEPT !.AllowPasswords = ap])
    \/ CallShouldSkipContent
    \/ CallIsLikelyPassword
    \/ CallDetectContentType
    \/ \E m \in 0..MaxPreview : CallTruncatePreview(m)

FnSpec == FnInit /\ [][FnNext]_vars

\* ------------------------------------------------------------------ claims

\* C1 as stated: a poll tick that reads the content of the previous tick
\* creates no entry and advances the lastAccessedAt of the entry holding that
\* content to the time of the tick.
C1_SecondTickRefreshes ==
    [][\A g \in Gens :
          (PollBegin(g) /\ event' = "poll: unchanged"
                        /\ WithHash(items, lastHash) # {}) =>
             /\ DOMAIN items' = DOMAIN items
             /\ \A id \in WithHash(items', lastHash) :
                   items'[id].LastAccessed = now]_vars

\* C1 (amended): a poll tick that reads content whose fingerprint equals the
\* last-seen fingerprint ends at that comparison: it creates no entry, changes
\* no stored entry (lastAccessedAt is not advanced) and leaves the last-seen
\* fingerprint as it was.
C1_SecondTickNoChange ==
    [][\A g \in Gens :
          (PollBegin(g) /\ config.MonitoringEnabled
                        /\ generateHash(clip) = lastHash) =>
             /\ items' = items
             /\ lastHash' = lastHash
             /\ poller'[g] = PollerIdle("select")]_vars

C1_Witness ==
    /\ event = "poll: unchanged"
    /\ \E id \in WithHash(items, lastHash) :
          /\ items[id].ContentText = clip
          /\ items[id].LastAccessed < now

\* C2: the step that ends a poll tick whose content differs from the last-seen
\* fingerprint and equals the fingerprint of a stored entry adds no entry and,
\* unless saving the entry fails, leaves a stored entry with that fingerprint
\* whose lastAccessedAt is the current time.
C2_StoredDuplicateRefreshed ==
    [][\A g \in Gens :
          LET h == generateHash(poller[g].content)
          IN  ((PollUpdate(g) \/ PollCreate(g)) /\ WithHash(items, h) # {}) =>
                 /\ DOMAIN items' = DOMAIN items
                 /\ event' # "poll: update error" =>
                       \E id \in WithHash(items', h) :
                          items'[id].LastAccessed = now]_vars

\* C3: no two stored entries share a fingerprint.
C3_UniqueFingerprint ==
    \A i, j \in DOMAIN items : items[i].Hash = items[j].Hash => i = j

\* C4: no step of a cleanup run in progress that is not interleaved with another operation
\* deletes or changes a pinned entry, and the count rule looks for entries to
\* evict only while the number of non-pinned entries exceeds maxItems.
C4_CleanupSparesPinned ==
    [][\A g \in Gens :
          (CleanerBusy(g) /\ CleanupStep(g)) =>
             /\ \A id \in Pinned(items) :
                   id \in DOMAIN items' /\ items'[id] = items[id]
             /\ (CleanupFind(g) \/ CleanupDelete(g)) =>
                   Cardinality(NonPinned(items)) > cleaner[g].maxItems
             /\ (CleanupCount(g) /\ event' = "cleanup: completed") =>
                   Cardinality(NonPinned(items)) <= cleaner[g].maxItems]_vars

C4_Witness ==
    /\ event = "cleanup: completed"
    /\ Cardinality(DOMAIN items) > settings.MaxItems
    /\ \E id \in Pinned(items) : items[id].CreatedAt < now - settings.MaxDays

\* C5: when a cleanup run completes without error no non-pinned entry created
\* before the run's cutoff is stored, and the age rule deletes only non-pinned
\* entries created before the cutoff.
C5_NoExpiredAfterCleanup ==
    [][\A g \in Gens :
          (CleanerBusy(g) /\ CleanupStep(g)) =>
             /\ event' = "cleanup: completed" =>
                   Expired(items', cleaner[g].cutoff) = {}
             /\ CleanupAge(g) =>
                   (DOMAIN items \ DOMAIN items') \subseteq
                       Expired(items, cleaner[g].cutoff)]_vars

\* C6: when a cleanup run that is not interleaved with another operation
\* completes without error, at most maxItems non-pinned entries are stored,
\* exactly maxItems if the run ends with an eviction, and each evicted entry
\* was created no later than every non-pinned entry left.
C6_CountRule ==
    [][\A g \in Gens :
          (CleanerBusy(g) /\ CleanupStep(g)) =>
             /\ event' = "cleanup: completed" =>
                   /\ Cardinality(NonPinned(items')) <= cleaner[g].maxItems
                   /\ CleanupDelete(g) =>
                         Cardinality(NonPinned(items')) = cleaner[g].maxItems
             /\ CleanupDelete(g) =>
                   \A gone \in DOMAIN items \ DOMAIN items' :
                      \A id \in NonPinned(items') :
                         items[gone].CreatedAt <= items'[id].CreatedAt]_vars

C6_Witness ==
    /\ event = "cleanup: completed"
    /\ now = 1
    /\ Cardinality(DOMAIN items) < nextId - 1
    /\ Cardinality(NonPinned(items)) = settings.MaxItems
    /\ \E id \in NonPinned(items) : items[id].CreatedAt = 1

\* C7: no step of a cleanup run in progress deletes an entry that is pinned when the step
\* is taken, whatever is interleaved with the run.
C7_NeverDeletesPinned ==
    [][\A g \in Gens :
          (CleanerBusy(g) /\ CleanupStep(g)) =>
             \A id \in Pinned(items) : id \in DOMAIN items']_vars

\* C8: Start() on a monitor that is already running returns the "already
\* running" error, leaves isRunning true and spawns no further polling or
\* cleanup goroutine.
C8_StartWhileRunning ==
    [][(Start /\ isRunning) =>
          /\ event' = "Start: already running"
          /\ isRunning'
          /\ started' = started
          /\ poller' = poller
          /\ cleaner' = cleaner]_vars

C8_Witness ==
    /\ event = "Start: already running"
    /\ isRunning
    /\ started = 1

\* C9: Stop() on a monitor that is not running returns without changing any
\* state, and every Stop() leaves the monitor not running, so that a second
\* Stop() in a row is that no-op.
C9_StopWhenNotRunning ==
    [][Stop =>
          /\ ~isRunning'
          /\ ~isRunning =>
                /\ event' = "Stop: not running"
                /\ UNCHANGED <<items, settings, nextId, now, clip, config,
                               lastHash, isRunning, ctxDone, started, poller,
                               cleaner, recall, ticker, out, hotkeys>>]_vars

C9_Witness ==
    /\ event = "Stop: not running"
    /\ ~isRunning
    /\ ctxDone

\* C10: once Stop() has returned (and until a later Start) no poll tick and no
\* cleanup run is in progress, and none changes the store or the last-seen
\* fingerprint.
C10_StopWaitsForTasks ==
    [][(~isRunning' /\ ctxDone') =>
          /\ \A g \in Gens : ~PollerBusy(g)' /\ ~CleanerBusy(g)'
          /\ (~isRunning /\ ctxDone) => (items' = items /\ lastHash' = lastHash)]_vars

\* C11: at most one poll tick (checkClipboard) is in progress at any time,
\* whatever Start and Stop calls have been made.
C11_OneTickAtATime ==
    Cardinality({g \in Gens : PollerBusy(g)}) <= 1

\* C12: a poll tick whose clipboard read fails changes neither the store nor
\* the last-seen fingerprint, leaves the monitor running and leaves the
\* polling goroutine waiting for its next tick.
C12_ReadErrorChangesNothing ==
    [][\A g \in Gens :
          (PollBegin(g) /\ event' = "poll: read error") =>
             /\ items' = items
             /\ lastHash' = lastHash
             /\ isRunning' = isRunning
             /\ ctxDone' = ctxDone
             /\ poller'[g] = PollerIdle("select")]_vars

C12_Witness ==
    /\ event = "poll: read error"
    /\ isRunning
    /\ items # << >>
    /\ ~ShouldSkipContent(config, clip)
    /\ generateHash(clip) # lastHash
    /\ \E g \in Gens : poller[g].pc = "select"

\* C13: a cleanup run that ends with a storage error (reading the settings or
\* deleting) leaves isRunning and the polling goroutines as they were and
\* leaves the cleanup goroutine waiting for its next interval.
C13_CleanupErrorKeepsRunning ==
    [][\A g \in Gens :
          (CleanupStep(g)
             /\ event' \in {"cleanup: settings error", "cleanup: error"}) =>
             /\ isRunning' = isRunning
             /\ ctxDone' = ctxDone
             /\ poller' = poller
             /\ cleaner'[g] = CleanerIdle("select")]_vars

C13_Witness ==
    /\ event = "cleanup: error"
    /\ isRunning
    /\ Cardinality(NonPinned(items)) > settings.MaxItems
    /\ \E g \in Gens : cleaner[g].pc = "select" /\ poller[g].pc = "select"

\* C14: a cleanup run takes maxItems and maxDays from the settings row as it
\* is when the run begins, and a run that completes enforces those values.
C14_CleanupUsesSavedSettings ==
    [][\A g \in Gens :
          /\ (CleanupBegin(g) /\ event' = "cleanup: running") =>
                /\ cleaner'[g].maxItems = settings.MaxItems
                /\ cleaner'[g].cutoff = now - settings.MaxDays
          /\ (CleanerBusy(g) /\ CleanupStep(g)
                /\ event' = "cleanup: completed") =>
                /\ Cardinality(NonPinned(items')) <= settings.MaxItems
                /\ Expired(items', now - settings.MaxDays) = {}]_vars

C14_Witness ==
    /\ event = "cleanup: completed"
    /\ isRunning
    /\ settings.MaxItems = 2
    /\ settings.MaxDays = 2
    /\ Cardinality(NonPinned(items)) = 2
    /\ \E id \in NonPinned(items) : items[id].CreatedAt = now - 2

\* C15: every poll cycle of the running monitor is timed by the polling
\* interval of the current configuration, and once UpdateSettings has saved
\* settings the configuration the monitor reads has their pollingInterval,
\* monitoringEnabled and allowPasswords.
C15_ChangesTakeEffect ==
    [][/\ \A g \in Gens :
             (isRunning /\ PollBegin(g)) => ticker[g] = config.PollingInterval
       /\ \A s \in SettingsChoices :
             (isRunning /\ AppUpdateSettings(s) /\ event' = "settings: saved") =>
                /\ config'.PollingInterval = s.PollingInterval
                /\ config'.MonitoringEnabled = s.MonitoringEnabled
                /\ config'.AllowPasswords = s.AllowPasswords]_vars

C17_DetectContentType ==
    out.fn = "detectContentType" =>
       LET t == TrimSpace(out.content)
           pathLike == \/ HasPrefix(t, <<"/">>)
                       \/ HasPrefix(t, <<"~", "/">>)
                       \/ Contains(t, <<":", "\\">>)
                       \/ HasPrefix(t, <<"f", "i", "l", "e", ":", "/", "/">>)
           urlLike == \/ HasPrefix(t, <<"h", "t", "t", "p", ":", "/", "/">>)
                      \/ HasPrefix(t, <<"h", "t", "t", "p", "s", ":", "/", "/">>)
                      \/ HasPrefix(t, <<"f", "t", "p", ":", "/", "/">>)
           image == \E ext \in ImageExtensions : HasSuffix(ToLower(t), ext)
       IN  /\ out.value \in ContentTypes
           /\ out.value = IF pathLike /\ image THEN "image"
                          ELSE IF pathLike THEN "file"
                          ELSE IF urlLike /\ image THEN "image"
                          ELSE "text"

C17_Witness ==
    /\ out.fn = "detectContentType"
    /\ out.value = "file"
    /\ looksLikeURL(TrimSpace(out.content))

\* C18: TruncatePreview(text, maxLength), maxLength >= 0, is text when
\* len(text) <= maxLength; otherwise it is the first k bytes of text followed
\* by "...", where k is the index of the last space or newline among the first
\* maxLength bytes if that index is greater than maxLength/2, and maxLength if
\* not; the result is at most maxLength + 3 long.
C18_TruncatePreview ==
    out.fn = "TruncatePreview" =>
       LET m == out.maxLength
           breaks == {i \in 0..(m - 1) : i < Len(out.text) /\ out.text[i + 1] \in {" ", "\n"}}
           last == IF breaks = {} THEN -1
                   ELSE CHOOSE i \in breaks : \A j \in breaks : j <= i
           k == IF 2 * last > m THEN last ELSE m
       IN  IF Len(out.text) <= m
           THEN out.value = out.text
           ELSE /\ out.value = SubSeq(out.text, 1, k) \o <<".", ".", ".">>
                /\ Len(out.value) <= m + 3

C18_Witness ==
    /\ out.fn = "TruncatePreview"
    /\ Len(out.text) > out.maxLength
    /\ Len(out.value) < out.maxLength + 3

\* C19: the id, content type, raw content, fingerprint and creation time of a
\* stored entry are never changed by a poll tick, a recall, a pin or unpin or
\* a cleanup run; only lastAccessed and isPinned change.
C19_EntryFieldsImmutable ==
    [][\A id \in (DOMAIN items) \cap (DOMAIN items') :
          /\ items'[id].ID = items[id].ID
          /\ items'[id].ContentType = items[id].ContentType
          /\ items'[id].ContentText = items[id].ContentText
          /\ items'[id].Hash = items[id].Hash
          /\ items'[id].CreatedAt = items[id].CreatedAt]_vars

C19_Witness ==
    \E id \in DOMAIN items :
       /\ items[id].LastAccessed > items[id].CreatedAt
       /\ items[id].IsPinned
       /\ event \in {"poll: refreshed", "recall: ok"}

\* C20: an entry leaves the store only through a delete, a clear-all or
\* clear-by-type, or a cleanup deletion; the queries (recent items, search,
\* item by id), a recall and the steps of a poll tick never remove an entry.
C20_RemovalOnlyByDeleteClearCleanup ==
    [][/\ ~((DOMAIN items) \subseteq (DOMAIN items')) =>
             \/ \E id \in Ids : DeleteItem(id)
             \/ \E preservePinned \in BOOLEAN : ClearAll(preservePinned)
             \/ \E ct \in ContentTypes, preservePinned \in BOOLEAN :
                   ClearByType(ct, preservePinned)
             \/ \E g \in Gens : CleanupAge(g) \/ CleanupDelete(g)
       /\ (\/ event' \in {"get items", "get items: error", "search",
                          "search: error", "get by id", "get by id: error"}
           \/ \E id \in Ids : RecallRead(id)
           \/ RecallSave
           \/ \E g \in Gens : PollerBusy(g) /\ PollStep(g)
           \/ \E g \in Gens : PollBegin(g))
             => (DOMAIN items) \subseteq (DOMAIN items')]_vars

C20_Witness ==
    /\ event = "recall: ok"
    /\ out.fn \in {"GetClipboardItems", "SearchClipboardItems"}
    /\ Len(out.value) = 2
    /\ Cardinality(DOMAIN items) = 2

C22_ClearDeletes ==
    [][/\ \A preservePinned \in BOOLEAN :
             ClearAll(preservePinned) =>
                items' = DeleteRows(items,
                            {id \in DOMAIN items :
                                ~preservePinned \/ ~items[id].IsPinned})
       /\ \A ct \in ContentTypes, preservePinned \in BOOLEAN :
             ClearByType(ct, preservePinned) =>
                items' = DeleteRows(items,
                            {id \in DOMAIN items :
                                /\ items[id].ContentType = ct
                                /\ ~preservePinned \/ ~items[id].IsPinned})]_vars

\* C23: after a poll tick that runs with monitoring enabled and reads the
\* clipboard, lastHash is the fingerprint of the content it read, whether the
\* content was unchanged, filtered out, matched a stored entry or was stored
\* as a new entry.
C23_LastHashFollowsRead ==
    [][\A g \in Gens :
          /\ (PollBegin(g) /\ event' \in {"poll: unchanged", "poll: skipped",
                                          "poll: changed"})
                => lastHash' = generateHash(clip)
          /\ (PollerBusy(g) /\ PollStep(g))
                => lastHash' = generateHash(poller[g].content)]_vars

C23_Witness ==
    /\ event = "poll: skipped"
    /\ isLikelyPassword(clip)
    /\ lastHash = generateHash(clip)
    /\ items # << >>

\* C24: once a tick has filtered the clipboard content as password-like, no
\* later tick evaluates that content again while it stays on the clipboard,
\* also after AllowPasswords has been switched on: lastHash stays its hash, no
\* tick finds the clipboard changed and nothing is stored.
C24_FilteredNotReconsidered ==
    [](event = "poll: skipped" =>
          [](/\ lastHash = generateHash(cPass)
             /\ event # "poll: changed"
             /\ items = << >>))

C24_Witness ==
    /\ event = "poll: unchanged"
    /\ clip = cPass
    /\ config.AllowPasswords
    /\ config.MonitoringEnabled
    /\ items = << >>

\* C25: content longer than 32 characters made only of letters, digits, '_'
\* and '-' (within the length limit, so excluded by no earlier rule) is
\* password-like, also with fewer than 3 character classes.
C25_TokenShapeIsPassword ==
    out.fn = "isLikelyPassword" =>
       LET t == TrimSpace(out.content)
           tokenChars == UpperChars \cup LowerChars \cup DigitChars \cup {"_", "-"}
       IN  (/\ Len(t) > 32
            /\ ByteLen(t) <= MaxPasswordLen
            /\ \A i \in 1..Len(t) : t[i] \in tokenChars) => out.value

\* C26: content shaped like a URL, a filesystem path, an e-mail address, a
\* method call or a bare property access, or ending in a short file extension,
\* is not password-like.
C26_ShapesNotPassword ==
    out.fn = "isLikelyPassword" =>
       LET t == TrimSpace(out.content)
           n == Len(t)
           letters == UpperChars \cup LowerChars
           alnum == letters \cup DigitChars
           IsIdent(a, b) == /\ a <= b
                            /\ t[a] \in letters \cup {"_"}
                            /\ \A k \in a..b : t[k] \in alnum \cup {"_"}
           urlShape == \/ HasPrefix(t, <<"h", "t", "t", "p", ":", "/", "/">>)
                       \/ HasPrefix(t, <<"h", "t", "t", "p", "s", ":", "/", "/">>)
                       \/ HasPrefix(t, <<"f", "t", "p", ":", "/", "/">>)
                       \/ HasPrefix(t, <<"w", "w", "w", ".">>)
           pathShape == \/ HasPrefix(t, <<"/">>)
                        \/ HasPrefix(t, <<".", "/">>)
                        \/ HasPrefix(t, <<".", ".", "/">>)
                        \/ HasPrefix(t, <<"~", "/">>)
                        \/ n >= 3 /\ t[1] \in letters /\ t[2] = ":" /\ t[3] = "\\"
           emailShape == \E i \in 2..(n - 3) :
                            /\ t[i] = "@"
                            /\ \A k \in 1..n : t[k] = "@" => k = i
                            /\ \E j \in (i + 2)..(n - 1) : t[j] = "."
           extShape == \E e \in {3, 4} :
                          /\ n > e + 1
                          /\ t[n - e] = "."
                          /\ \A k \in (n - e + 1)..n : t[k] \in alnum
           propShape == \E d \in 2..(n - 1) :
                           t[d] = "." /\ IsIdent(1, d - 1) /\ IsIdent(d + 1, n)
           callShape == /\ n >= 3
                        /\ t[n] = ")"
                        /\ \E o \in 2..(n - 1) :
                              /\ t[o] = "("
                              /\ \/ IsIdent(1, o - 1)
                                 \/ \E d \in 2..(o - 2) :
                                       /\ t[d] = "."
                                       /\ IsIdent(1, d - 1)
                                       /\ IsIdent(d + 1, o - 1)
       IN  (urlShape \/ pathShape \/ emailShape \/ extShape \/ propShape
               \/ callShape) => ~out.value

\* C27: content that is one repeated character, is camelCase-like or holds a
\* run of 3 or more identical consecutive characters is not password-like,
\* unless the base64 or the token rule flags it.
C27_RepeatsNotPassword ==
    out.fn = "isLikelyPassword" =>
       LET t == TrimSpace(out.content)
           n == Len(t)
           letters == UpperChars \cup LowerChars
           alnum == letters \cup DigitChars
           repeated == n >= 1 /\ \A i \in 1..n : t[i] = t[1]
           run == \E i \in 1..(n - 2) : t[i] = t[i + 1] /\ t[i + 1] = t[i + 2]
           camel == /\ n >= 1
                    /\ t[1] \in letters
                    /\ \A i \in 1..n : t[i] \in alnum
                    /\ \E i \in 1..n : t[i] \in UpperChars
                    /\ 2 * Cardinality({i \in 1..n : t[i] \in letters}) > n
           base64 == /\ n > 20
                     /\ n % 4 = 0
                     /\ \A i \in 1..n :
                           \/ t[i] \in alnum \cup {"+", "/"}
                           \/ t[i] = "=" /\ i >= n - 1
           token == /\ n > 32
                    /\ \A i \in 1..n : t[i] \in alnum \cup {"_", "-"}
       IN  ((repeated \/ camel \/ run) /\ ~base64 /\ ~token) => ~out.value

\* C28: content that, after trimming, holds a space, a tab, a newline or a
\* carriage return is not password-like.
C28_WhitespaceNotPassword ==
    out.fn = "isLikelyPassword" =>
       (ContainsAny(TrimSpace(out.content), {" ", "\t", "\n", "\r"})
           => ~out.value)

\* C29: content whose trimmed length is below 8 or above 128, or which has
\* fewer than 3 of the classes uppercase, lowercase, digit, special and does
\* not match the base64 or token rule, is not password-like.
C29_LengthAndClasses ==
    out.fn = "isLikelyPassword" =>
       LET t == TrimSpace(out.content)
           n == Len(t)
           alnum == UpperChars \cup LowerChars \cup DigitChars
           classes == Cardinality({c \in {UpperChars, LowerChars, DigitChars,
                                           SpecialChars} :
                                      \E i \in 1..n : t[i] \in c})
           base64 == /\ n > 20
                     /\ n % 4 = 0
                     /\ \A i \in 1..n :
                           \/ t[i] \in alnum \cup {"+", "/"}
                           \/ t[i] = "=" /\ i >= n - 1
           token == /\ n > 32
                    /\ \A i \in 1..n : t[i] \in alnum \cup {"_", "-"}
       IN  (\/ ByteLen(t) < MinPasswordLen
            \/ ByteLen(t) > MaxPasswordLen
            \/ classes < 3 /\ ~base64 /\ ~token) => ~out.value

C29_Witness ==
    /\ out.fn = "isLikelyPassword"
    /\ ~out.value
    /\ out.content = inTwoClasses

\* C30: when the count rule must evict only some of several non-pinned
\* entries with equal createdAt, the evicted set is determined by the store
\* contents and the configuration: the query for the oldest entries has one
\* possible set of rows.
C30_EvictionDeterministic ==
    \A g \in Gens :
       cleaner[g].pc = "find" =>
          Cardinality({Range(l) :
                         l \in OldestItems(items, cleaner[g].itemsToDelete)}) <= 1

\* The listings and the three searches over rows inserted through the
\* Database API with any pin flag, as the database tests insert them: a row
\* is either copied first and pasted last, or copied later and never pasted.
ListStamps == {<<0, 2>>, <<1, 1>>}
Pages == {[limit |-> 1, offset |-> 0], [limit |-> 2, offset |-> 0],
          [limit |-> 2, offset |-> 1]}

ListItems ==
    {[NewRow(nextId, c, st[1]) EXCEPT !.IsPinned = p, !.LastAccessed = st[2]] :
        c \in {cText, cPath}, st \in ListStamps, p \in BOOLEAN}

ListInit == Init /\ settings = FirstSettings /\ clip = cText

ListNext ==
    \/ \E item \in ListItems : CreateClipboardItem(item)
    \/ \E pg \in Pages, sort \in SortOrders :
          GetClipboardItems(pg.limit, pg.offset, "image", sort)
    \/ \E pg \in Pages, sort \in SortOrders :
          SearchClipboardItems(<<"H">>, pg.limit, pg.offset, sort)
    \/ \E pattern \in RegexPatterns, pg \in Pages, sort \in SortOrders :
          SearchClipboardItemsRegex(pattern, pg.limit, pg.offset, sort)

ListSpec == ListInit /\ [][ListNext]_vars

\* C31: every listing and every search result (substring or regex) has all
\* pinned entries before all non-pinned ones and, within each group, the
\* entries in descending recency (createdAt when the sort mode is "copied",
\* lastAccessedAt otherwise), and holds at most limit entries starting at
\* offset: no matching entry beyond the first offset ones is left out before
\* an entry of the result.
C31_ListingOrderAndPage ==
    event \in {"get items", "search", "regex search"} =>
       LET v == out.value
           key(r) == IF out.sortByRecent = "copied" THEN r.CreatedAt
                     ELSE r.LastAccessed
           matches(id) ==
               IF out.fn = "GetClipboardItems"
               THEN out.arg = "" \/ items[id].ContentType = out.arg
               ELSE IF out.fn = "SearchClipboardItems"
               THEN MatchesTerm(items[id], out.arg)
               ELSE MatchesRegex(items[id], out.arg)
           matching == {id \in DOMAIN items : matches(id)}
           before(a, b) == \/ items[a].IsPinned /\ ~items[b].IsPinned
                           \/ /\ items[a].IsPinned = items[b].IsPinned
                              /\ key(items[a]) > key(items[b])
           rest == IF Cardinality(matching) > out.offset
                   THEN Cardinality(matching) - out.offset ELSE 0
       IN  /\ \A i \in 1..Len(v) : v[i] \in matching
           /\ \A i, j \in 1..Len(v) : i # j => v[i] # v[j]
           /\ \A i, j \in 1..Len(v) :
                 i < j => /\ items[v[j]].IsPinned => items[v[i]].IsPinned
                          /\ items[v[i]].IsPinned = items[v[j]].IsPinned
                                => key(items[v[i]]) >= key(items[v[j]])
           /\ Len(v) <= out.limit
           /\ Len(v) = IF rest < out.limit THEN rest ELSE out.limit
           /\ \A i \in 1..Len(v) :
                 Cardinality({id \in matching : before(id, v[i])})
                    <= out.offset + i - 1

C31_Witness ==
    /\ event = "regex search"
    /\ out.limit = 2
    /\ out.offset = 1
    /\ out.sortByRecent = "pasted"
    /\ Len(out.value) = 2
    /\ Cardinality(DOMAIN items) = 3
    /\ items[out.value[1]].IsPinned
    /\ ~items[out.value[2]].IsPinned
    /\ \E id \in DOMAIN items :
          /\ items[id].IsPinned
          /\ items[id].LastAccessed > items[out.value[1]].LastAccessed
          /\ items[id].CreatedAt < items[out.value[1]].CreatedAt

\* The settings maps handed to UpdateFromSettings: the full map of
\* TestUpdateFromSettings, the same map with every value of a wrong type, and
\* every map of at most two of five keys, each with a value of the expected
\* type or, as in TestUpdateFromSettingsInvalidTypes, of a wrong one.
SettingKeys ==
    {"pollingInterval", "maxItems", "maxDays", "monitoringEnabled",
     "globalHotkey", "previousItemHotkey", "autoLaunch", "enableSounds",
     "allowPasswords"}

GoodValue ==
    [key \in SettingKeys |->
        IF key = "pollingInterval" THEN GoValue("int", 2 * DefaultInterval)
        ELSE IF key = "maxItems" THEN GoValue("int", 200)
        ELSE IF key = "maxDays" THEN GoValue("int", 14)
        ELSE IF key = "monitoringEnabled" THEN GoValue("bool", FALSE)
        ELSE IF key = "globalHotkey" THEN GoValue("string", "Ctrl+V")
        ELSE IF key = "previousItemHotkey"
             THEN GoValue("string", "Ctrl+Shift+V")
        ELSE IF key = "autoLaunch" THEN GoValue("bool", FALSE)
        ELSE GoValue("bool", TRUE)]

BadValue ==
    [key \in SettingKeys |->
        IF key \in {"globalHotkey", "previousItemHotkey"}
        THEN GoValue("int", 1) ELSE GoValue("string", "invalid")]

VariedKeys ==
    {"pollingInterval", "maxItems", "monitoringEnabled", "globalHotkey",
     "allowPasswords"}

SettingsMaps ==
    {GoodValue, BadValue} \cup
    UNION {{[key \in K |-> IF pick[key] THEN GoodValue[key] ELSE BadValue[key]] :
              pick \in [K -> BOOLEAN]} :
           K \in {K \in SUBSET VariedKeys : Cardinality(K) <= 2}}

UpdInit == Init /\ settings = FirstSettings /\ clip = cText

UpdNext == \E m \in SettingsMaps : CallUpdateFromSettings(m)

UpdSpec == UpdInit /\ [][UpdNext]_vars

\* C32: UpdateFromSettings changes only the configuration fields whose key is
\* present in the map with a value of the expected type; a field whose key is
\* missing or whose value has the wrong type keeps its previous value.
C32_OnlyWellTypedKeysChange ==
    out.fn = "UpdateFromSettings" =>
       LET keyOf == [PollingInterval |-> "pollingInterval",
                     MaxItems |-> "maxItems", MaxDays |-> "maxDays",
                     MonitoringEnabled |-> "monitoringEnabled",
                     GlobalHotkey |-> "globalHotkey",
                     PreviousHotkey |-> "previousItemHotkey",
                     AutoLaunch |-> "autoLaunch",
                     EnableSounds |-> "enableSounds",
                     AllowPasswords |-> "allowPasswords"]
           typeOf == [PollingInterval |-> "int", MaxItems |-> "int",
                      MaxDays |-> "int", MonitoringEnabled |-> "bool",
                      GlobalHotkey |-> "string", PreviousHotkey |-> "string",
                      AutoLaunch |-> "bool", EnableSounds |-> "bool",
                      AllowPasswords |-> "bool"]
           m == out.settings
       IN  /\ DOMAIN out.value = DOMAIN out.cfg
           /\ config = out.value
           /\ \A f \in DOMAIN out.cfg :
                 (\/ keyOf[f] \notin DOMAIN m
                  \/ m[keyOf[f]].type # typeOf[f])
                    => out.value[f] = out.cfg[f]

C32_Witness ==
    /\ out.fn = "UpdateFromSettings"
    /\ DOMAIN out.settings = {"pollingInterval", "maxItems"}
    /\ out.settings["pollingInterval"].type = "int"
    /\ out.settings["maxItems"].type = "string"
    /\ out.value.PollingInterval # out.cfg.PollingInterval
    /\ out.cfg.MaxItems # NewConfig.MaxItems
    /\ out.cfg.MonitoringEnabled # NewConfig.MonitoringEnabled
    /\ out.value.MaxItems = out.cfg.MaxItems

\* C33 as stated: registering a malformed configuration (a setting whose
\* value is missing or of the wrong type) is reported to the caller as an
\* error, so a call of UpdateFromSettings that ends normally was given a
\* value of the expected type for every setting.
C33_MalformedReported ==
    event = "update from settings" =>
       \A key \in SettingKeys :
          /\ key \in DOMAIN out.settings
          /\ out.settings[key].type = GoodValue[key].type

\* C33 as the code has it: a malformed configuration is accepted without an
\* error; a setting whose value is missing or of the wrong type is skipped,
\* its field keeps the previous value, and the well-typed settings of the same
\* map are still applied.
C33_MalformedSkippedPerSetting ==
    (/\ out.fn = "UpdateFromSettings"
     /\ \E key \in SettingKeys :
           \/ key \notin DOMAIN out.settings
           \/ out.settings[key].type # GoodValue[key].type) =>
       LET fieldOf == [pollingInterval |-> "PollingInterval",
                       maxItems |-> "MaxItems", maxDays |-> "MaxDays",
                       monitoringEnabled |-> "MonitoringEnabled",
                       globalHotkey |-> "GlobalHotkey",
                       previousItemHotkey |-> "PreviousHotkey",
                       autoLaunch |-> "AutoLaunch",
                       enableSounds |-> "EnableSounds",
                       allowPasswords |-> "AllowPasswords"]
           m == out.settings
       IN  \A key \in SettingKeys :
              out.value[fieldOf[key]] =
                 IF key \in DOMAIN m /\ m[key].type = GoodValue[key].type
                 THEN m[key].val
                 ELSE out.cfg[fieldOf[key]]

C33_Witness ==
    /\ event = "update from settings"
    /\ DOMAIN out.settings = {"monitoringEnabled", "allowPasswords"}
    /\ out.settings["monitoringEnabled"].type = "string"
    /\ out.settings["allowPasswords"].type = "bool"
    /\ ~out.cfg.AllowPasswords
    /\ out.value.AllowPasswords
    /\ ~out.cfg.MonitoringEnabled
    /\ ~out.value.MonitoringEnabled

\* The hotkey manager of either implementation under every sequence of its
\* operations.
HotInit == Init /\ settings = FirstSettings /\ clip = cText

HotNext ==
    \/ \E impl \in HotkeyImpls : NewHotkeyManager(impl)
    \/ \E h \in HotkeyStrs, cb \in Callbacks : HotkeyRegister(h, cb)
    \/ \E h \in HotkeyStrs : HotkeyUnregister(h)
    \/ HotkeyStart
    \/ HotkeyStop
    \/ \E h \in HotkeyStrs : TriggerHotkey(h)

HotSpec == HotInit /\ [][HotNext]_vars

\* C34: Register on a hotkey string that is already registered succeeds and
\* replaces the previous callback: one registration exists for the string and
\* triggering it invokes only the callback registered last; after Unregister
\* of the string, triggering it invokes no callback.
C34_RegisterReplaces ==
    /\ (/\ event \in {"hotkey: registered", "hotkey: register error"}
        /\ out.again) =>
          /\ event = "hotkey: registered"
          /\ out.hotkey \in hotkeys.registered
          /\ hotkeys.callbacks[out.hotkey] = out.callback
    /\ (/\ event = "hotkey: triggered"
        /\ out.fn = "Register"
        /\ out.again
        /\ hotkeys.key = out.hotkey) => hotkeys.called = {out.callback}
    /\ (/\ event = "hotkey: triggered"
        /\ out.fn = "Unregister"
        /\ hotkeys.key = out.hotkey) => hotkeys.called = {}

\* C35: whenever IsRunning() is true, the polling goroutine and the cleanup
\* goroutine of the latest Start are alive, waiting for or working on a tick;
\* in particular after Start(); Stop(); Start() poll ticks are processed again.
C35_RunningMeansTasksAlive ==
    (isRunning /\ started > 0) =>
       /\ poller[started].pc # "exited"
       /\ cleaner[started].pc # "exited"

\* Calls from the UI interleaved statement by statement with the poll ticks
\* of a monitor started once: the user copies two contents in turn while
\* entries are pinned, unpinned, deleted, cleared and recalled; the storage
\* does not fail.
RaceInit == Init /\ settings = FirstSettings /\ clip = cBlank

RaceNext ==
    \/ ~isRunning /\ Start /\ lastHash' # NoHash
    \/ \E g \in Gens : PollBegin(g)
    \/ \E g \in Gens : PollLookup(g) /\ NoStorageFault
    \/ \E g \in Gens : PollUpdate(g) /\ NoStorageFault
    \/ \E g \in Gens : PollCreate(g) /\ NoStorageFault
    \/ \E id \in Ids, pinned \in BOOLEAN : PinItem(id, pinned)
    \/ \E id \in Ids : DeleteItem(id)
    \/ ClearAll(TRUE)
    \/ \E id \in Ids : RecallRead(id)
    \/ RecallSave
    \/ \E c \in {cText, cPath} : UserCopy(c)

RaceSpec == RaceInit /\ [][RaceNext]_vars

\* C36: a pin(id, true) that has returned is never reverted by a duplicate
\* re-copy handled in a poll tick or by a recall of the same entry: a stored
\* pinned entry stays pinned in every step but an explicit pin(id, false).
C36_PinNeverReverted ==
    [][\A id \in DOMAIN items :
          (/\ items[id].IsPinned
           /\ id \in DOMAIN items'
           /\ ~items'[id].IsPinned) => PinItem(id, FALSE)]_vars

\* C37: an entry removed by delete(id), a bulk clear or a cleanup eviction
\* never reappears in the store: no step, and in particular no duplicate
\* refresh of a poll tick and no save of a recall that read the entry before
\* it was removed, stores an id that was handed out and is no longer stored.
C37_RemovedNeverReappears ==
    [][\A id \in Ids :
          (id < nextId /\ id \notin DOMAIN items) => id \notin DOMAIN items']_vars

C39_CreateErrorNotRetried ==
    [][\A g \in Gens :
          /\ (PollCreate(g) /\ event' = "poll: create error") =>
                /\ items' = items
                /\ nextId' = nextId
                /\ isRunning' = isRunning
                /\ ctxDone' = ctxDone
                /\ poller'[g] = PollerIdle("select")
                /\ lastHash = generateHash(poller[g].content)
                /\ lastHash' = lastHash
          /\ (PollBegin(g) /\ generateHash(clip) = lastHash) =>
                /\ event' \in {"poll: unchanged", "poll: read error"}
                /\ items' = items
                /\ lastHash' = lastHash
                /\ poller'[g] = PollerIdle("select")]_vars

C39_Witness ==
    /\ event = "poll: create error"
    /\ isRunning
    /\ clip = cText
    /\ lastHash = generateHash(cText)
    /\ WithHash(items, generateHash(cText)) = {}
    /\ \A g \in Gens : ~PollerBusy(g)

====
